---- MODULE Spec2Model ----
(***************************************************************************)
(* A model of the Canonical Event Log (CEL) codec and replay of            *)
(* go-eventlog, together with the fake root of trust (FakeROT) its tests    *)
(* measure into.  Byte strings are sequences of integers 0..255, TLVs are   *)
(* marshalled to and parsed from such sequences exactly as the code does,   *)
(* and Go maps whose iteration order the runtime randomises are iterated    *)
(* in an order chosen nondeterministically.                                  *)
(***************************************************************************)
EXTENDS Integers, Sequences, FiniteSets, TLC

VARIABLES
    Type,         \* eventLog.Type of the log under test
    Recs,         \* eventLog.Recs of the log under test
    fakeMRBanks,  \* FakeROT.fakeMRBanks: per bank, the registers extended so far
    call,         \* what the last call on the log, the ROT or a TLV was given and returned
    hist,         \* history of the AppendEvent calls made so far
    bank,         \* the FakeMRBank handed to Replay
    replayErr,    \* what Replay returned for the log and the bank as they are now
    tampered,     \* the overwritten records' positions, each with its digests before
    buf,          \* the unread bytes of the bytes.Buffer the encoders write to
    decoded,      \* what the last DecodeToCEL call returned, and for what
    written,      \* the records encoded into buf, and whether one EncodeCEL wrote them
    events,       \* the replayed events of a firmware event log, in stream order
    registerCfg,  \* the registerConfig the extractors are called with
    extracted     \* what the last extractor call returned for events

vars == <<Type, Recs, fakeMRBanks, call, hist, bank, replayErr, tampered, buf, decoded, written,
          events, registerCfg, extracted>>

\* the variables of the canonical event log and its root of trust
celVars == <<Type, Recs, fakeMRBanks, call, hist, bank, replayErr, tampered, buf, decoded, written>>

----------------------------------------------------------------------------
(* Bounds of the model. *)

\* the log holds at most MaxRecs records
MaxRecs == 2
\* numIdxs given to CreateFakeRot: the registers 0..NumIdxs-1 exist
NumIdxs == 257
\* ExtendMR is called on the root of trust directly at most MaxExtends times,
\* or on registers that were extended fewer than MaxExtends times
MaxExtends == 3
\* at most MaxFails AppendEvent calls fail
MaxFails == 1
\* at most MaxTampers digests of the log are overwritten
MaxTampers == 1
\* a bank is given at most MaxExtraMRs registers besides those read from the ROT
MaxExtraMRs == 1
\* the digest lengths of the hash algorithms, in bytes, scaled down from 20,
\* 32 and 48; nothing in the program depends on their values
SHA1Size == 3
SHA256Size == 4
SHA384Size == 5
\* the extractors are called on at most MaxEfiEvents events of the boot
\* applications
MaxEfiEvents == 4
\* the extractors are called on at most MaxSepEvents separators and events
\* with the digest of a separator
MaxSepEvents == 2
\* EfiDriverState is called on at most MaxDriverEvents events of the drivers
MaxDriverEvents == 3
\* PlatformState is called on at most MaxPlatformEvents events of the platform
MaxPlatformEvents == 3
\* the GRUB extractors are called on at most MaxGrubEvents events
MaxGrubEvents == 3
\* FirmwareLogState is called on at most MaxFirmwareEvents events
MaxFirmwareEvents == 3

----------------------------------------------------------------------------
(* Program constants. *)

recnumTypeValue == 0
PCRType == 1
CCMRType == 108
digestsTypeValue == 3
tlvTypeFieldLength == 1
tlvLengthFieldLength == 4
recnumValueLength == 8
regIndexValueLength == 1
FakeEventType == 222
FakeEvent1 == 0
FakeEvent2 == 1

\* the banks the tests create the FakeROT with
measuredHashes == <<"SHA1", "SHA256">>

\* the hash algorithms of the model; the FakeROT has no SHA384 bank
HashAlgos == {"SHA1", "SHA256", "SHA384"}

\* crypto.Hash.Size()
HashSize(h) ==
    CASE h = "SHA1" -> SHA1Size
      [] h = "SHA256" -> SHA256Size
      [] h = "SHA384" -> SHA384Size

\* tpm2.HashToAlgorithm, truncated to the uint8 the digest TLV type holds
HashToAlgorithm(h) ==
    CASE h = "SHA1" -> 4
      [] h = "SHA256" -> 11
      [] h = "SHA384" -> 12

\* tpm2.Algorithm.Hash(): "" stands for the error of an unknown algorithm
AlgorithmToHash(a) ==
    CASE a = 4 -> "SHA1"
      [] a = 11 -> "SHA256"
      [] a = 12 -> "SHA384"
      [] OTHER -> ""

----------------------------------------------------------------------------
(* Byte strings and hashing. *)

Range(s) == {s[i] : i \in DOMAIN s}

\* x := v followed by F(x): the value is computed once, where it is assigned
With(v, F(_)) == CHOOSE r \in {F(x) : x \in {v}} : TRUE

Zeroes(n) == [i \in 1..n |-> 0]

\* uint8(x) of a non-negative int
Uint8(x) == x % 256

\* binary.BigEndian.PutUint32
PutUint32(n) ==
    <<(n \div 16777216) % 256, (n \div 65536) % 256, (n \div 256) % 256, n % 256>>

\* binary.BigEndian.Uint32
GetUint32(b) == ((b[1] * 256 + b[2]) * 256 + b[3]) * 256 + b[4]

\* binary.BigEndian.PutUint64, for record numbers below 2^31
PutUint64(n) == Zeroes(4) \o PutUint32(n)

\* binary.BigEndian.Uint64 of a value whose upper five bytes are zero; a larger
\* value is reported as 16777216 + its low three bytes, which no record number
\* of the model equals
GetUint64(b) ==
    LET low == (b[6] * 256 + b[7]) * 256 + b[8]
    IN  IF \A i \in 1..5 : b[i] = 0 THEN low ELSE 16777216 + low

\* The hash algorithms are modelled by a polynomial hash of the input bytes,
\* seeded by the algorithm and written to the first three bytes of a digest of
\* the algorithm's size.  It stands for a collision-free function: the
\* model's inputs are few enough that no two of them collide.
RECURSIVE Horner(_, _, _)
Horner(s, i, acc) ==
    IF i > Len(s) THEN acc
    ELSE LET a == (acc * 251 + s[i] + 1) % 8388593
         IN  IF a < 0 THEN a ELSE Horner(s, i + 1, a)

\* hash.New(); hash.Write(data); hash.Sum(nil)
Sum(h, data) ==
    LET a == Horner(data, 1, HashToAlgorithm(h))
    IN  <<a % 256, (a \div 256) % 256, a \div 65536>> \o Zeroes(HashSize(h) - 3)

----------------------------------------------------------------------------
(* TLV. *)

TLV(t, v) == [Type |-> t, Value |-> v]

\* TLV.MarshalBinary
MarshalBinary(t) == <<t.Type>> \o PutUint32(Len(t.Value)) \o t.Value

\* TLV.UnmarshalBinary: the error and the TLV.  The slice expressions
\* data[1:5] and data[5:] panic on a slice of fewer than five bytes, the
\* first when its capacity is below five and the second always; the panic is
\* the outcome "panic", which every caller passes on as it unwinds.
UnmarshalBinary(data) ==
    IF Len(data) < tlvTypeFieldLength + tlvLengthFieldLength
    THEN [err |-> "panic", tlv |-> TLV(0, <<>>)]
    ELSE IF GetUint32(SubSeq(data, 2, 5)) # Len(data) - 5
    THEN [err |-> "length", tlv |-> TLV(0, <<>>)]
    ELSE [err |-> "nil", tlv |-> TLV(data[1], SubSeq(data, 6, Len(data)))]

\* unmarshalFirstTLV on the unread bytes b of a buffer: the TLV read and the
\* bytes left, or io.EOF when the buffer ends inside the TLV
unmarshalFirstTLV(b) ==
    IF Len(b) < tlvTypeFieldLength + tlvLengthFieldLength
    THEN [err |-> "EOF", tlv |-> TLV(0, <<>>), rest |-> <<>>]
    ELSE LET valueLength == GetUint32(SubSeq(b, 2, 5))
             avail == Len(b) - 5
             tlv == UnmarshalBinary(SubSeq(b, 1, 5 + valueLength))
         IN  IF avail < valueLength
             THEN [err |-> "EOF", tlv |-> TLV(0, <<>>), rest |-> <<>>]
             ELSE [err |-> tlv.err, tlv |-> tlv.tlv,
                   rest |-> SubSeq(b, 6 + valueLength, Len(b))]

----------------------------------------------------------------------------
(* FakeTlv, the event content of the tests. *)

\* the events the model appends
Events ==
    { [EventType |-> FakeEvent1, EventContent |-> <<100, 111>>],
      [EventType |-> FakeEvent2, EventContent |-> <<115>>] }

\* FakeTlv.TLV
FakeTlvTLV(f) == TLV(FakeEventType, MarshalBinary(TLV(f.EventType, f.EventContent)))

\* TLV.IsFakeTLV
IsFakeTLV(t) == t.Type = FakeEventType

\* TLV.ParseToFakeTlv: the error and the FakeTlv
ParseToFakeTlv(t) ==
    IF ~IsFakeTLV(t)
    THEN [err |-> "type", f |-> [EventType |-> 0, EventContent |-> <<>>]]
    ELSE LET nestedEvent == UnmarshalBinary(t.Value)
         IN  IF nestedEvent.err # "nil"
             THEN [err |-> nestedEvent.err, f |-> [EventType |-> 0, EventContent |-> <<>>]]
             ELSE [err |-> "nil",
                   f |-> [EventType |-> nestedEvent.tlv.Type,
                          EventContent |-> nestedEvent.tlv.Value]]

\* FakeTlv.GenerateDigest
GenerateDigest(f, hashAlgo) == Sum(hashAlgo, MarshalBinary(FakeTlvTLV(f)))

----------------------------------------------------------------------------
(* FakeROT. *)

\* CreateFakeRot(measuredHashes, NumIdxs): every register of every bank is
\* zeroes.  fakeMRBanks[h] holds the registers that were extended; a register
\* of 0..NumIdxs-1 that is not in it still has the digest it was created with.
CreateFakeRot == [h \in Range(measuredHashes) |-> << >>]

\* FakeROT.Digest
FakeROTDigest(f, mr) ==
    IF mr.DigestAlg \notin DOMAIN f
    THEN [err |-> "nobank", dgst |-> <<>>]
    ELSE IF mr.Index \notin 0..(NumIdxs - 1)
    THEN [err |-> "noindex", dgst |-> <<>>]
    ELSE [err |-> "nil",
          dgst |-> IF mr.Index \in DOMAIN f[mr.DigestAlg]
                   THEN f[mr.DigestAlg][mr.Index]
                   ELSE Zeroes(HashSize(mr.DigestAlg))]

\* the register idx of every bank set to d
SetMRInEveryBank(f, hash, idx, d) ==
    [h \in DOMAIN f |-> [i \in (DOMAIN f[h]) \cup {idx} |-> IF i = idx THEN d ELSE f[h][i]]]

\* f.fakeMRBanks[hash][idx] = d
SetMR(f, hash, idx, d) ==
    [f EXCEPT ![hash] =
        [i \in (DOMAIN f[hash]) \cup {idx} |-> IF i = idx THEN d ELSE f[hash][i]]]

\* ExtendMR without its check of the digest's size
ExtendMRWithoutSizeCheck(f, mr) ==
    LET mrDigest == FakeROTDigest(f, mr)
    IN  IF mrDigest.err # "nil"
        THEN [err |-> mrDigest.err, rot |-> f]
        ELSE [err |-> "nil",
              rot |-> SetMR(f, mr.DigestAlg, mr.Index,
                            Sum(mr.DigestAlg, mrDigest.dgst \o mr.Digest))]

\* FakeROT.ExtendMR: the error returned and the registers afterwards
ExtendMR(f, mr) ==
    IF Len(mr.Digest) # HashSize(mr.DigestAlg)
    THEN [err |-> "size", rot |-> f]
    ELSE LET mrDigest == FakeROTDigest(f, mr)
         IN  IF mrDigest.err # "nil"
             THEN [err |-> mrDigest.err, rot |-> f]
             ELSE [err |-> "nil",
                   rot |-> SetMR(f, mr.DigestAlg, mr.Index,
                                 Sum(mr.DigestAlg, mrDigest.dgst \o mr.Digest))]

FakeMR(idx, dgst, alg) == [DigestAlg |-> alg, Index |-> idx, Digest |-> dgst]

----------------------------------------------------------------------------
(* AppendEvent. *)

\* the orders in which a range loop may visit the keys of a map
Orders(keys) ==
    {o \in [1..Cardinality(keys) -> keys] : \A i, j \in DOMAIN o : i # j => o[i] # o[j]}

\* the digests of the events, computed once
EventDigests == [e \in Events |-> [h \in HashAlgos |-> GenerateDigest(e, h)]]

\* generateDigestMap (FakeTlv.GenerateDigest never fails)
generateDigestMap(hashAlgos, event) ==
    [h \in Range(hashAlgos) |-> EventDigests[event][h]]

\* supportedMRType that accepts every type
supportedMRTypeAny(mrType) == TRUE

\* supportedMRType: TRUE when it returns no error
supportedMRType(mrType) == mrType = PCRType \/ mrType = CCMRType

\* the loop of AppendEvent over digestMap, visiting the banks in the order
\* ord from position i on, with the extender of the tests (fakeRotExtender):
\* the first error ends it
RECURSIVE ExtendLoop(_, _, _, _, _)
ExtendLoop(f, digestMap, ord, i, mrIndex) ==
    IF i > Len(ord) THEN [err |-> "nil", rot |-> f, calls |-> i - 1]
    ELSE LET r == ExtendMR(f, FakeMR(mrIndex, digestMap[ord[i]], ord[i]))
         IN  IF r.err # "nil" THEN [err |-> "extend", rot |-> r.rot, calls |-> i]
             ELSE ExtendLoop(r.rot, digestMap, ord, i + 1, mrIndex)

\* AppendEvent that numbers the records from one
AppendEventResultNumberingFromOne(type, recs, f, event, bankAlgos, mrIndex, ord) ==
    IF Len(bankAlgos) = 0 \/ mrIndex < 0
    THEN [err |-> "args", Recs |-> recs, rot |-> f, calls |-> 0]
    ELSE IF ~supportedMRType(type)
    THEN [err |-> "mrtype", Recs |-> recs, rot |-> f, calls |-> 0]
    ELSE LET digestMap == generateDigestMap(bankAlgos, event)
             ext == ExtendLoop(f, digestMap, ord, 1, mrIndex)
             celrPCR == [RecNum |-> Len(recs) + 1,
                         Index |-> Uint8(mrIndex),
                         Digests |-> digestMap,
                         Content |-> FakeTlvTLV(event),
                         IndexType |-> type]
         IN  IF ext.err # "nil"
             THEN [err |-> ext.err, Recs |-> recs, rot |-> ext.rot, calls |-> ext.calls]
             ELSE [err |-> "nil", Recs |-> Append(recs, celrPCR), rot |-> ext.rot,
                   calls |-> ext.calls]

\* eventLog.AppendEvent on the log (type, recs) with the extender of the
\* tests, the digest map being visited in the order ord: the error returned,
\* the records and the registers afterwards, and the number of extender calls
AppendEventResult(type, recs, f, event, bankAlgos, mrIndex, ord) ==
    IF Len(bankAlgos) = 0 \/ mrIndex < 0
    THEN [err |-> "args", Recs |-> recs, rot |-> f, calls |-> 0]
    ELSE IF ~supportedMRType(type)
    THEN [err |-> "mrtype", Recs |-> recs, rot |-> f, calls |-> 0]
    ELSE LET digestMap == generateDigestMap(bankAlgos, event)
             ext == ExtendLoop(f, digestMap, ord, 1, mrIndex)
             celrPCR == [RecNum |-> Len(recs),
                         Index |-> Uint8(mrIndex),
                         Digests |-> digestMap,
                         Content |-> FakeTlvTLV(event),
                         IndexType |-> type]
         IN  IF ext.err # "nil"
             THEN [err |-> ext.err, Recs |-> recs, rot |-> ext.rot, calls |-> ext.calls]
             ELSE [err |-> "nil", Recs |-> Append(recs, celrPCR), rot |-> ext.rot,
                   calls |-> ext.calls]

\* the MR types a log is constructed with: NewPCR, NewConfComputeMR, and the
\* eventLog{} and eventLog{Type: t} literals of the tests
MRTypes == {0, PCRType, 2, CCMRType}

\* the algorithm lists AppendEvent is called with
AlgoLists == {<<>>, <<"SHA1", "SHA256">>, <<"SHA256">>, <<"SHA256", "SHA384">>}

\* the register indices AppendEvent is called with
MRIndices == {-1, 0, 256, NumIdxs}

NoCall == [op |-> "none", err |-> "nil", calls |-> 0, before |-> 0,
           empty |-> FALSE, negative |-> FALSE]

NoReplay == [err |-> "none", regs |-> {}]

AppendEvent(event, bankAlgos, mrIndex) ==
    /\ Len(Recs) < MaxRecs
    /\ \E ord \in Orders(Range(bankAlgos)) :
        LET r == AppendEventResult(Type, Recs, fakeMRBanks, event, bankAlgos, mrIndex, ord)
        IN  /\ r.err # "nil" => hist.failed < MaxFails
            /\ Recs' = r.Recs
            /\ fakeMRBanks' = r.rot
            /\ call' = [op |-> "AppendEvent", err |-> r.err, calls |-> r.calls,
                        before |-> Len(Recs), empty |-> Len(bankAlgos) = 0,
                        negative |-> mrIndex < 0]
            /\ hist' = IF r.err = "nil"
                       THEN [hist EXCEPT !.ok = @ + 1, !.algos = @ \cup {bankAlgos},
                                         !.indices = @ \cup {mrIndex}]
                       ELSE [hist EXCEPT !.failed = @ + 1]
            /\ replayErr' = IF r.err = "nil" THEN NoReplay ELSE replayErr
            /\ UNCHANGED <<Type, bank, tampered, buf, decoded, written,
                           events, registerCfg, extracted>>

\* rot.ExtendMR(mr), called on the root of trust directly
CallExtendMR(mr) ==
    /\ call.calls < MaxExtends
    /\ LET r == ExtendMR(fakeMRBanks, mr)
       IN  /\ fakeMRBanks' = r.rot
           /\ call' = [op |-> "ExtendMR", err |-> r.err, calls |-> call.calls + 1,
                       mr |-> mr, rot |-> fakeMRBanks]
           /\ hist' = IF r.err = "nil" THEN [hist EXCEPT !.ok = @ + 1]
                      ELSE [hist EXCEPT !.failed = @ + 1]
    /\ UNCHANGED <<Type, Recs, bank, replayErr, tampered, buf, decoded, written,
                   events, registerCfg, extracted>>

----------------------------------------------------------------------------
(* Banks and Replay. *)

FakeMRBank(hash, mrs) == [Hash |-> hash, FakeMRs |-> mrs]

\* FakeMRBank{}
NoBank == FakeMRBank("", <<>>)

\* FakeROT.ReadMRs: the error and the bank returned
ReadMRsResult(f, hash, mrSelection) ==
    IF hash \notin DOMAIN f THEN [err |-> "nobank", bank |-> NoBank]
    ELSE IF \E i \in DOMAIN mrSelection : mrSelection[i] \notin 0..(NumIdxs - 1)
    THEN [err |-> "noindex", bank |-> NoBank]
    ELSE [err |-> "nil",
          bank |-> FakeMRBank(hash,
                      [i \in DOMAIN mrSelection |->
                          FakeMR(mrSelection[i],
                                 FakeROTDigest(f, FakeMR(mrSelection[i], <<>>, hash)).dgst,
                                 hash)])]

\* the first loop of Replay with the records that have no digest of the
\* algorithm skipped
RECURSIVE ReplayLoopSkipping(_, _, _, _)
ReplayLoopSkipping(recs, i, cryptoHash, acc) ==
    IF i > Len(recs) THEN [err |-> "nil", replayed |-> acc]
    ELSE LET record == recs[i]
             old == IF record.Index \in DOMAIN acc THEN acc[record.Index]
                    ELSE Zeroes(HashSize(cryptoHash))
         IN  IF cryptoHash \notin DOMAIN record.Digests
             THEN ReplayLoopSkipping(recs, i + 1, cryptoHash, acc)
             ELSE ReplayLoopSkipping(recs, i + 1, cryptoHash,
                     [r \in (DOMAIN acc) \cup {record.Index} |->
                         IF r = record.Index
                         THEN Sum(cryptoHash, old \o record.Digests[cryptoHash])
                         ELSE acc[r]])

\* the first loop of Replay with every record extending zeroes, not the
\* accumulator of its register
RECURSIVE ReplayLoopFromZeroes(_, _, _, _)
ReplayLoopFromZeroes(recs, i, cryptoHash, acc) ==
    IF i > Len(recs) THEN [err |-> "nil", replayed |-> acc]
    ELSE LET record == recs[i]
             old == Zeroes(HashSize(cryptoHash))
         IN  IF cryptoHash \notin DOMAIN record.Digests
             THEN [err |-> "nodigest", replayed |-> acc]
             ELSE ReplayLoopFromZeroes(recs, i + 1, cryptoHash,
                     [r \in (DOMAIN acc) \cup {record.Index} |->
                         IF r = record.Index
                         THEN Sum(cryptoHash, old \o record.Digests[cryptoHash])
                         ELSE acc[r]])

\* the first loop of Replay from record i on: the accumulators of the
\* registers, or "nodigest" when a record has no digest of the bank's algorithm
RECURSIVE ReplayLoop(_, _, _, _)
ReplayLoop(recs, i, cryptoHash, acc) ==
    IF i > Len(recs) THEN [err |-> "nil", replayed |-> acc]
    ELSE LET record == recs[i]
             old == IF record.Index \in DOMAIN acc THEN acc[record.Index]
                    ELSE Zeroes(HashSize(cryptoHash))
         IN  IF cryptoHash \notin DOMAIN record.Digests
             THEN [err |-> "nodigest", replayed |-> acc]
             ELSE ReplayLoop(recs, i + 1, cryptoHash,
                     [r \in (DOMAIN acc) \cup {record.Index} |->
                         IF r = record.Index
                         THEN Sum(cryptoHash, old \o record.Digests[cryptoHash])
                         ELSE acc[r]])

\* registers[r.Idx()] = r.Dgst() for the registers of the bank in order: a
\* later register of the same index replaces an earlier one
Registers(mrs) ==
    [x \in {mrs[i].Index : i \in DOMAIN mrs} |->
        mrs[CHOOSE i \in DOMAIN mrs :
                /\ mrs[i].Index = x
                /\ \A j \in DOMAIN mrs : mrs[j].Index = x => j <= i].Digest]

\* Replay with the comparison of the digests replaced by a comparison of
\* their lengths
ReplayResultsComparingLengths(recs, regs) ==
    LET loop == ReplayLoop(recs, 1, regs.Hash, << >>)
        registers == Registers(regs.FakeMRs)
        lacking == (DOMAIN loop.replayed) \ (DOMAIN registers)
        failedReplayRegs == {r \in (DOMAIN loop.replayed) \cap (DOMAIN registers) :
                                Len(registers[r]) # Len(loop.replayed[r])}
    IN  IF loop.err # "nil" THEN {[err |-> loop.err, regs |-> {}]}
        ELSE IF lacking # {} THEN {[err |-> "missing", regs |-> {r}] : r \in lacking}
        ELSE IF failedReplayRegs = {} THEN {[err |-> "nil", regs |-> {}]}
        ELSE {[err |-> "mismatch", regs |-> failedReplayRegs]}

\* Replay with a register the bank lacks counted as a failed register, and
\* reported only after the loop
ReplayResultsCountingLacking(recs, regs) ==
    LET loop == ReplayLoop(recs, 1, regs.Hash, << >>)
        registers == Registers(regs.FakeMRs)
        failedReplayRegs == {r \in DOMAIN loop.replayed :
                                \/ r \notin DOMAIN registers
                                \/ registers[r] # loop.replayed[r]}
    IN  IF loop.err # "nil" THEN {[err |-> loop.err, regs |-> {}]}
        ELSE IF failedReplayRegs = {} THEN {[err |-> "nil", regs |-> {}]}
        ELSE {[err |-> "mismatch", regs |-> failedReplayRegs]}

\* Replay with the second loop running over the registers of the bank: one
\* that the log did not extend is compared with zeroes
ReplayResultsOverBank(recs, regs) ==
    LET loop == ReplayLoop(recs, 1, regs.Hash, << >>)
        registers == Registers(regs.FakeMRs)
        lacking == (DOMAIN loop.replayed) \ (DOMAIN registers)
        failedReplayRegs ==
            {r \in DOMAIN registers :
                registers[r] # (IF r \in DOMAIN loop.replayed THEN loop.replayed[r]
                                ELSE Zeroes(Len(registers[r])))}
    IN  IF loop.err # "nil" THEN {[err |-> loop.err, regs |-> {}]}
        ELSE IF lacking # {} THEN {[err |-> "missing", regs |-> {r}] : r \in lacking}
        ELSE IF failedReplayRegs = {} THEN {[err |-> "nil", regs |-> {}]}
        ELSE {[err |-> "mismatch", regs |-> failedReplayRegs]}

\* Replay that reports a bank holding no register as an error
ReplayResultsWantingRegisters(recs, regs) ==
    LET loop == ReplayLoop(recs, 1, regs.Hash, << >>)
        registers == Registers(regs.FakeMRs)
        lacking == (DOMAIN loop.replayed) \ (DOMAIN registers)
        failedReplayRegs == {r \in (DOMAIN loop.replayed) \cap (DOMAIN registers) :
                                registers[r] # loop.replayed[r]}
    IN  IF loop.err # "nil" THEN {[err |-> loop.err, regs |-> {}]}
        ELSE IF lacking # {} THEN {[err |-> "missing", regs |-> {r}] : r \in lacking}
        ELSE IF recs = <<>> /\ registers # << >> THEN {[err |-> "mismatch", regs |-> DOMAIN registers]}
        ELSE IF failedReplayRegs = {} THEN {[err |-> "nil", regs |-> {}]}
        ELSE {[err |-> "mismatch", regs |-> failedReplayRegs]}

\* Replay that stops comparing at the first register whose digest differs
ReplayResultsListingFirst(recs, regs) ==
    LET loop == ReplayLoop(recs, 1, regs.Hash, << >>)
        registers == Registers(regs.FakeMRs)
        lacking == (DOMAIN loop.replayed) \ (DOMAIN registers)
        failedReplayRegs == {r \in (DOMAIN loop.replayed) \cap (DOMAIN registers) :
                                registers[r] # loop.replayed[r]}
    IN  IF loop.err # "nil" THEN {[err |-> loop.err, regs |-> {}]}
        ELSE IF lacking # {} THEN {[err |-> "missing", regs |-> {r}] : r \in lacking}
        ELSE IF failedReplayRegs = {} THEN {[err |-> "nil", regs |-> {}]}
        ELSE {[err |-> "mismatch", regs |-> {r}] : r \in failedReplayRegs}

\* eventLog.Replay: the results it may return.  The loop over the replayed
\* registers visits them in any order and returns at the first one the bank
\* lacks, so any of the lacking registers may be the one reported.
ReplayResults(recs, regs) ==
    LET cryptoHash == regs.Hash
        loop == ReplayLoop(recs, 1, cryptoHash, << >>)
        registers == Registers(regs.FakeMRs)
        lacking == (DOMAIN loop.replayed) \ (DOMAIN registers)
        failedReplayRegs == {r \in (DOMAIN loop.replayed) \cap (DOMAIN registers) :
                                registers[r] # loop.replayed[r]}
    IN  IF loop.err # "nil" THEN {[err |-> loop.err, regs |-> {}]}
        ELSE IF lacking # {} THEN {[err |-> "missing", regs |-> {r}] : r \in lacking}
        ELSE IF failedReplayRegs = {} THEN {[err |-> "nil", regs |-> {}]}
        ELSE {[err |-> "mismatch", regs |-> failedReplayRegs]}

\* the index selections ReadMRs is called with
Selections == {<<0>>, <<0, 1, 256>>, <<NumIdxs>>}

\* bank, err := rot.ReadMRs(hash, mrSelection)
ReadMRs(hash, mrSelection) ==
    /\ bank' = ReadMRsResult(fakeMRBanks, hash, mrSelection).bank
    /\ replayErr' = NoReplay
    /\ UNCHANGED <<Type, Recs, fakeMRBanks, call, hist, tampered, buf, decoded, written,
                   events, registerCfg, extracted>>

\* the digests a caller gives a register of a bank it builds itself, and
\* overwrites a digest of a record with
SomeDigests(hash) ==
    {Zeroes(HashSize(hash)), Sum(hash, <<>>)} \cup {EventDigests[e][hash] : e \in Events}

\* the number of registers of the bank that ReadMRs did not put there
ExtraMRs(regs) ==
    Cardinality({i \in DOMAIN regs.FakeMRs :
        regs.FakeMRs[i].Digest #
            FakeROTDigest(fakeMRBanks, FakeMR(regs.FakeMRs[i].Index, <<>>, regs.Hash)).dgst})

\* bank.FakeMRs = append(bank.FakeMRs, FakeMR{idx, digest, bank.Hash}), on a
\* bank read from the ROT or on FakeMRBank{Hash: hash}
AddMR(hash, idx, digest) ==
    /\ bank.Hash \in {"", hash}
    /\ Len(bank.FakeMRs) < 3
    /\ bank' = FakeMRBank(hash, Append(bank.FakeMRs, FakeMR(idx, digest, hash)))
    /\ ExtraMRs(bank') <= MaxExtraMRs
    /\ replayErr' = NoReplay
    /\ UNCHANGED <<Type, Recs, fakeMRBanks, call, hist, tampered, buf, decoded, written,
                   events, registerCfg, extracted>>

\* cel.Records()[i].Digests[hash] = digest, as the tests tamper with a log
TamperDigest(i, hash, digest) ==
    /\ i \in DOMAIN Recs
    /\ hash \in DOMAIN Recs[i].Digests
    /\ Len(digest) = Len(Recs[i].Digests[hash])
    /\ digest # Recs[i].Digests[hash]
    /\ Cardinality(DOMAIN tampered) < MaxTampers
    /\ i \notin DOMAIN tampered
    /\ tampered' = [j \in (DOMAIN tampered) \cup {i} |->
                       IF j = i THEN Recs[i].Digests ELSE tampered[j]]
    /\ Recs' = [Recs EXCEPT ![i].Digests[hash] = digest]
    /\ replayErr' = NoReplay
    /\ UNCHANGED <<Type, fakeMRBanks, call, hist, bank, buf, decoded, written,
                   events, registerCfg, extracted>>

\* the log as it was appended, without the overwritten digests
Untampered ==
    [i \in DOMAIN Recs |->
        IF i \in DOMAIN tampered THEN [Recs[i] EXCEPT !.Digests = tampered[i]]
        ELSE Recs[i]]

\* err := cel.Replay(bank)
Replay ==
    /\ bank.Hash \in HashAlgos \/ Recs = <<>>
    /\ \E r \in ReplayResults(Recs, bank) : replayErr' = r
    /\ UNCHANGED <<Type, Recs, fakeMRBanks, call, hist, bank, tampered, buf, decoded, written,
                   events, registerCfg, extracted>>

----------------------------------------------------------------------------
(* FakeROT with its digests as slices: a register holds a slice, a bank
   returned by ReadMRs holds the slices the registers held, and the bytes are
   those of the slice's backing array. *)

\* the backing array of the n-th digest of register idx of bank hash, the
\* digest CreateFakeRot made being the 0-th
Array(hash, idx, n) == <<hash, idx, n>>

\* CreateFakeRot(measuredHashes, NumIdxs): fakeMRBanks[h] holds the arrays of
\* the registers that were extended, a register that is not in it holding
\* the array it was created with; arrays holds the bytes of the arrays that
\* were written after they were made, the others holding zeroes
CreateFakeRotOfSlices ==
    [fakeMRBanks |-> [h \in Range(measuredHashes) |-> << >>], arrays |-> << >>]

\* f.fakeMRBanks[hash][idx]
SliceOf(f, hash, idx) ==
    IF idx \in DOMAIN f.fakeMRBanks[hash] THEN f.fakeMRBanks[hash][idx]
    ELSE Array(hash, idx, 0)

\* the bytes of the array a
BytesOf(f, a) == IF a \in DOMAIN f.arrays THEN f.arrays[a] ELSE Zeroes(HashSize(a[1]))

\* the registers of f with the bytes of their slices
ValuesOf(f) ==
    [h \in DOMAIN f.fakeMRBanks |->
        [idx \in DOMAIN f.fakeMRBanks[h] |-> BytesOf(f, f.fakeMRBanks[h][idx])]]

\* arrays[a] = d
SetArray(f, a, d) ==
    [f EXCEPT !.arrays = [x \in (DOMAIN f.arrays) \cup {a} |-> IF x = a THEN d ELSE f.arrays[x]]]

\* ExtendMR with the sum copied into the array of the register
ExtendMRInPlace(f, mr) ==
    LET r == ExtendMR(ValuesOf(f), mr)
        old == SliceOf(f, mr.DigestAlg, mr.Index)
    IN  IF r.err # "nil" THEN [err |-> r.err, rot |-> f]
        ELSE [err |-> "nil",
              rot |-> SetArray(f, old, Sum(mr.DigestAlg, BytesOf(f, old) \o mr.Digest))]

\* FakeROT.ExtendMR: hasher.Sum(nil) makes a new array, and the register is
\* set to it
ExtendMROfSlices(f, mr) ==
    LET r == ExtendMR(ValuesOf(f), mr)
        old == SliceOf(f, mr.DigestAlg, mr.Index)
        new == Array(mr.DigestAlg, mr.Index, old[3] + 1)
    IN  IF r.err # "nil" THEN [err |-> r.err, rot |-> f]
        ELSE [err |-> "nil",
              rot |-> SetArray([f EXCEPT !.fakeMRBanks =
                                   SetMR(f.fakeMRBanks, mr.DigestAlg, mr.Index, new)],
                               new, Sum(mr.DigestAlg, BytesOf(f, old) \o mr.Digest))]

\* the loop of AppendEvent over digestMap from position i of the order ord
\* on, with the extender of the tests
RECURSIVE ExtendLoopOfSlices(_, _, _, _, _)
ExtendLoopOfSlices(f, digestMap, ord, i, mrIndex) ==
    IF i > Len(ord) THEN f
    ELSE With(ExtendMROfSlices(f, FakeMR(mrIndex, digestMap[ord[i]], ord[i])),
              LAMBDA r : IF r.err # "nil" THEN r.rot
                         ELSE ExtendLoopOfSlices(r.rot, digestMap, ord, i + 1, mrIndex))

\* FakeROT.ReadMRs: the bank holds the slices of the registers
ReadMRsOfSlices(f, hash, mrSelection) ==
    IF ReadMRsResult(ValuesOf(f), hash, mrSelection).err # "nil" THEN NoBank
    ELSE FakeMRBank(hash,
             [i \in DOMAIN mrSelection |->
                 FakeMR(mrSelection[i], SliceOf(f, hash, mrSelection[i]), hash)])

\* the bank regs with the bytes its slices have in f
BankValues(f, regs) ==
    FakeMRBank(regs.Hash,
        [i \in DOMAIN regs.FakeMRs |->
            FakeMR(regs.FakeMRs[i].Index, BytesOf(f, regs.FakeMRs[i].Digest), regs.Hash)])

\* cel.AppendEvent(event, bankAlgos, mrIndex, fakeRotExtender(rot))
AppendEventToSlices(event, bankAlgos, mrIndex) ==
    /\ Len(Recs) < MaxRecs
    /\ \E ord \in Orders(Range(bankAlgos)) :
        LET r == AppendEventResult(Type, Recs, ValuesOf(fakeMRBanks), event, bankAlgos,
                                   mrIndex, ord)
        IN  /\ r.err # "nil" => hist.failed < MaxFails
            /\ Recs' = r.Recs
            /\ fakeMRBanks' =
                   IF r.calls = 0 THEN fakeMRBanks
                   ELSE ExtendLoopOfSlices(fakeMRBanks, generateDigestMap(bankAlgos, event),
                                           ord, 1, mrIndex)
            /\ call' = [op |-> "AppendEvent", err |-> r.err, calls |-> r.calls,
                        before |-> Len(Recs), empty |-> Len(bankAlgos) = 0,
                        negative |-> mrIndex < 0]
            /\ hist' = IF r.err = "nil"
                       THEN [hist EXCEPT !.ok = @ + 1, !.algos = @ \cup {bankAlgos},
                                         !.indices = @ \cup {mrIndex}]
                       ELSE [hist EXCEPT !.failed = @ + 1]
            /\ replayErr' = IF r.err = "nil" THEN NoReplay ELSE replayErr
            /\ UNCHANGED <<Type, bank, tampered, buf, decoded, written,
                           events, registerCfg, extracted>>

\* rot.ExtendMR(mr), on a register that was extended fewer than MaxExtends
\* times; what Replay returned is kept
ExtendMRSlice(mr) ==
    /\ mr.DigestAlg \in DOMAIN fakeMRBanks.fakeMRBanks
    /\ SliceOf(fakeMRBanks, mr.DigestAlg, mr.Index)[3] < MaxExtends
    /\ LET r == ExtendMROfSlices(fakeMRBanks, mr)
       IN  /\ fakeMRBanks' = r.rot
           /\ call' = [op |-> "ExtendMR", err |-> r.err, calls |-> 0, mr |-> mr]
    /\ UNCHANGED <<Type, Recs, hist, bank, replayErr, tampered, buf, decoded, written,
                   events, registerCfg, extracted>>

\* bank, err := rot.ReadMRs(hash, mrSelection)
ReadMRsSlices(hash, mrSelection) ==
    /\ bank' = ReadMRsOfSlices(fakeMRBanks, hash, mrSelection)
    /\ replayErr' = NoReplay
    /\ UNCHANGED <<Type, Recs, fakeMRBanks, call, hist, tampered, buf, decoded, written,
                   events, registerCfg, extracted>>

\* err := cel.Replay(bank)
ReplaySlices ==
    /\ bank.Hash \in HashAlgos
    /\ \E r \in ReplayResults(Recs, BankValues(fakeMRBanks, bank)) : replayErr' = r
    /\ UNCHANGED <<Type, Recs, fakeMRBanks, call, hist, bank, tampered, buf, decoded, written,
                   events, registerCfg, extracted>>

----------------------------------------------------------------------------
(* Encoding and decoding. *)

\* createRecNumField
createRecNumField(recNum) == TLV(Uint8(recnumTypeValue), PutUint64(recNum))

\* unmarshalRecNum
unmarshalRecNum(tlv) ==
    IF tlv.Type # Uint8(recnumTypeValue) THEN [err |-> "recnumtype", recNum |-> 0]
    ELSE IF Len(tlv.Value) # recnumValueLength THEN [err |-> "recnumlen", recNum |-> 0]
    ELSE [err |-> "nil", recNum |-> GetUint64(tlv.Value)]

\* createIndexField that writes the index type in the place of the index
createIndexFieldOfType(indexType, indexNum) == TLV(indexType, <<indexType>>)

\* createIndexField
createIndexField(indexType, indexNum) == TLV(indexType, <<indexNum>>)

\* unmarshalIndex
unmarshalIndex(tlv) ==
    IF tlv.Type # Uint8(PCRType) /\ tlv.Type # Uint8(CCMRType)
    THEN [err |-> "indextype", indexType |-> 0, pcrNum |-> 0]
    ELSE IF Len(tlv.Value) # regIndexValueLength
    THEN [err |-> "indexlen", indexType |-> 0, pcrNum |-> 0]
    ELSE [err |-> "nil", indexType |-> tlv.Type, pcrNum |-> tlv.Value[1]]

\* the bytes createDigestField writes for the digests of digestMap, visited in
\* the order ord from position i on
RECURSIVE DigestTLVs(_, _, _)
DigestTLVs(digestMap, ord, i) ==
    IF i > Len(ord) THEN <<>>
    ELSE MarshalBinary(TLV(Uint8(HashToAlgorithm(ord[i])), digestMap[ord[i]]))
            \o DigestTLVs(digestMap, ord, i + 1)

\* createDigestField: the results it may return, one for each order the map
\* may be visited in
createDigestField(digestMap) ==
    IF \E h \in DOMAIN digestMap : Len(digestMap[h]) # HashSize(h)
    THEN {[err |-> "digestlen", tlv |-> TLV(0, <<>>)]}
    ELSE {[err |-> "nil", tlv |-> TLV(Uint8(digestsTypeValue), DigestTLVs(digestMap, ord, 1))] :
             ord \in Orders(DOMAIN digestMap)}

\* the loop of unmarshalDigests over the unread bytes b, the map being acc
RECURSIVE unmarshalDigestsLoop(_, _)
unmarshalDigestsLoop(b, acc) ==
    IF Len(b) = 0 THEN [err |-> "nil", digestsMap |-> acc]
    ELSE With(unmarshalFirstTLV(b), LAMBDA digestTLV :
         With(AlgorithmToHash(digestTLV.tlv.Type), LAMBDA hashAlg :
             IF digestTLV.err = "EOF" THEN [err |-> "unexpected", digestsMap |-> << >>]
             ELSE IF digestTLV.err # "nil" THEN [err |-> digestTLV.err, digestsMap |-> << >>]
             ELSE IF hashAlg = "" THEN [err |-> "algorithm", digestsMap |-> << >>]
             ELSE With([h \in (DOMAIN acc) \cup {hashAlg} |->
                           IF h = hashAlg THEN digestTLV.tlv.Value ELSE acc[h]],
                       LAMBDA digestsMap :
                           unmarshalDigestsLoop(digestTLV.rest, digestsMap))))

\* unmarshalDigests
unmarshalDigests(tlv) ==
    IF tlv.Type # Uint8(digestsTypeValue) THEN [err |-> "digeststype", digestsMap |-> << >>]
    ELSE unmarshalDigestsLoop(tlv.Value, << >>)

\* Record{}
NoRecord == [RecNum |-> 0, Index |-> 0, Digests |-> << >>, Content |-> TLV(0, <<>>),
             IndexType |-> 0]

\* Record.EncodeCELR on the buffer holding b: the results it may return, one
\* for each order createDigestField may visit the digests in.  The fields are
\* written after all of them were built, so an error leaves the buffer as is.
EncodeCELRResults(r, b) ==
    LET recnumField == MarshalBinary(createRecNumField(r.RecNum))
        indexField == MarshalBinary(createIndexField(r.IndexType, r.Index))
        eventField == MarshalBinary(r.Content)
    IN  {IF digests.err # "nil" THEN [err |-> digests.err, buf |-> b]
         ELSE [err |-> "nil",
               buf |-> b \o recnumField \o indexField \o MarshalBinary(digests.tlv)
                         \o eventField] :
            digests \in createDigestField(r.Digests)}

\* eventLog.EncodeCEL from record i on: the first error ends it, and leaves
\* the records before in the buffer
RECURSIVE EncodeCELResults(_, _, _)
EncodeCELResults(recs, i, b) ==
    IF i > Len(recs) THEN {[err |-> "nil", buf |-> b]}
    ELSE UNION {IF e.err # "nil" THEN {e} ELSE EncodeCELResults(recs, i + 1, e.buf) :
                   e \in EncodeCELRResults(recs[i], b)}

\* decodeToCELR on the unread bytes b: the error, the record and the bytes left
decodeToCELR(b) ==
    With(unmarshalFirstTLV(b), LAMBDA recnum :
    IF recnum.err # "nil" THEN [err |-> recnum.err, r |-> NoRecord, rest |-> recnum.rest]
    ELSE With(unmarshalRecNum(recnum.tlv), LAMBDA RecNum :
    IF RecNum.err # "nil" THEN [err |-> RecNum.err, r |-> NoRecord, rest |-> recnum.rest]
    ELSE With(unmarshalFirstTLV(recnum.rest), LAMBDA regIndex :
    IF regIndex.err # "nil" THEN [err |-> regIndex.err, r |-> NoRecord, rest |-> regIndex.rest]
    ELSE With(unmarshalIndex(regIndex.tlv), LAMBDA Index :
    IF Index.err # "nil" THEN [err |-> Index.err, r |-> NoRecord, rest |-> regIndex.rest]
    ELSE With(unmarshalFirstTLV(regIndex.rest), LAMBDA digests :
    IF digests.err # "nil" THEN [err |-> digests.err, r |-> NoRecord, rest |-> digests.rest]
    ELSE With(unmarshalDigests(digests.tlv), LAMBDA Digests :
    IF Digests.err # "nil" THEN [err |-> Digests.err, r |-> NoRecord, rest |-> digests.rest]
    ELSE With(unmarshalFirstTLV(digests.rest), LAMBDA Content :
    IF Content.err # "nil" THEN [err |-> Content.err, r |-> NoRecord, rest |-> Content.rest]
    ELSE [err |-> "nil",
          r |-> [RecNum |-> RecNum.recNum, Index |-> Index.pcrNum,
                 Digests |-> Digests.digestsMap, Content |-> Content.tlv,
                 IndexType |-> Index.indexType],
          rest |-> Content.rest])))))))

\* the first loop of DecodeToCEL on the unread bytes b, the records decoded
\* so far being recs
RECURSIVE DecodeLoop(_, _)
DecodeLoop(b, recs) ==
    IF Len(b) = 0 THEN [err |-> "nil", Recs |-> recs, rest |-> b]
    ELSE With(decodeToCELR(b), LAMBDA celr :
         IF celr.err = "EOF" THEN [err |-> "unexpected", Recs |-> <<>>, rest |-> celr.rest]
         ELSE IF celr.err # "nil" THEN [err |-> celr.err, Recs |-> <<>>, rest |-> celr.rest]
         ELSE DecodeLoop(celr.rest, Append(recs, celr.r)))

\* the index-type checks of DecodeToCEL without the comparison of the types
CheckTypesNotComparing(cel) ==
    LET zeroMRType == cel.Recs[1].IndexType
        bad == {i \in DOMAIN cel.Recs : ~supportedMRType(cel.Recs[i].IndexType)}
    IN  IF cel.err # "nil" THEN [err |-> cel.err, Recs |-> <<>>, Type |-> 0, rest |-> cel.rest]
        ELSE IF Len(cel.Recs) > 1
        THEN IF bad # {}
             THEN [err |-> "mrtype", Recs |-> <<>>, Type |-> 0, rest |-> cel.rest]
             ELSE [err |-> "nil", Recs |-> cel.Recs, Type |-> zeroMRType, rest |-> cel.rest]
        ELSE [err |-> "nil", Recs |-> cel.Recs, Type |-> 0, rest |-> cel.rest]

\* what DecodeToCEL returns after its first loop returned cel: an eventLog{}
\* with an error, and else the records.  The index types are checked, and the
\* type of the log is set, for a log of two records or more.
CheckTypes(cel) ==
    LET zeroMRType == cel.Recs[1].IndexType
        bad == {i \in DOMAIN cel.Recs :
                   \/ ~supportedMRType(cel.Recs[i].IndexType)
                   \/ cel.Recs[i].IndexType # zeroMRType}
        first == CHOOSE i \in bad : \A j \in bad : i <= j
    IN  IF cel.err # "nil" THEN [err |-> cel.err, Recs |-> <<>>, Type |-> 0, rest |-> cel.rest]
        ELSE IF Len(cel.Recs) > 1
        THEN IF bad # {}
             THEN [err |-> IF ~supportedMRType(cel.Recs[first].IndexType) THEN "mrtype"
                           ELSE "differing",
                   Recs |-> <<>>, Type |-> 0, rest |-> cel.rest]
             ELSE [err |-> "nil", Recs |-> cel.Recs, Type |-> zeroMRType, rest |-> cel.rest]
        ELSE [err |-> "nil", Recs |-> cel.Recs, Type |-> 0, rest |-> cel.rest]

\* DecodeToCEL on the unread bytes b: the error, the eventLog returned and the
\* bytes left unread
DecodeToCELResult(b) == With(DecodeLoop(b, <<>>), LAMBDA cel : CheckTypes(cel))

\* no record was encoded into the buffer
NoneWritten == [recs |-> <<>>, cel |-> FALSE, Type |-> 0]

\* DecodeToCEL was not called on what the buffer holds
NoDecode == [err |-> "none", Recs |-> <<>>, Type |-> 0, from |-> NoneWritten]

\* the records Record.EncodeCELR is called on apart from those of a log: of
\* every index type, and one whose digest is shorter than its algorithm's
SomeRecords ==
    {[RecNum |-> 0, Index |-> 7, Digests |-> digests,
      Content |-> FakeTlvTLV([EventType |-> FakeEvent1, EventContent |-> <<100, 111>>]),
      IndexType |-> t] :
        t \in MRTypes,
        digests \in {[h \in {"SHA256"} |-> Sum("SHA256", <<>>)]}}
    \cup {[NoRecord EXCEPT !.Digests = [h \in {"SHA1"} |-> <<1, 2>>]]}

\* err := cel.EncodeCEL(&buf), on a buffer that is empty or holds records
EncodeCEL ==
    /\ written.recs = <<>> => buf = <<>>
    /\ Len(written.recs) + Len(Recs) <= MaxRecs
    /\ \E e \in EncodeCELResults(Recs, 1, buf) :
          /\ buf' = e.buf
          /\ written' = [recs |-> written.recs \o Recs,
                         cel |-> written.recs = <<>>,
                         Type |-> Type]
    /\ decoded' = NoDecode
    /\ UNCHANGED <<Type, Recs, fakeMRBanks, call, hist, bank, replayErr, tampered,
                   events, registerCfg, extracted>>

\* err := r.EncodeCELR(&buf), on a buffer that is empty or holds records
EncodeCELR(r) ==
    /\ written.recs = <<>> => buf = <<>>
    /\ Len(written.recs) < MaxRecs
    /\ \E e \in EncodeCELRResults(r, buf) :
          /\ buf' = e.buf
          /\ written' = IF e.err # "nil" THEN written
                        ELSE [written EXCEPT !.recs = Append(written.recs, r),
                                             !.cel = FALSE, !.Type = 0]
          /\ decoded' = IF e.err # "nil" THEN decoded ELSE NoDecode
    /\ UNCHANGED <<Type, Recs, fakeMRBanks, call, hist, bank, replayErr, tampered,
                   events, registerCfg, extracted>>

\* decodedcel, err := DecodeToCEL(&buf): an error may leave bytes unread
DecodeToCEL ==
    /\ LET d == DecodeToCELResult(buf)
       IN  /\ decoded' = [err |-> d.err, Recs |-> d.Recs, Type |-> d.Type, from |-> written]
           /\ buf' = d.rest
           /\ written' = NoneWritten
    /\ UNCHANGED <<Type, Recs, fakeMRBanks, call, hist, bank, replayErr, tampered,
                   events, registerCfg, extracted>>

\* buf.Truncate(buf.Len() - 1): the buffer loses its last unread byte
Truncate ==
    /\ buf # <<>>
    /\ buf' = SubSeq(buf, 1, Len(buf) - 1)
    /\ written' = NoneWritten
    /\ decoded' = NoDecode
    /\ UNCHANGED <<Type, Recs, fakeMRBanks, call, hist, bank, replayErr, tampered,
                   events, registerCfg, extracted>>

\* err := tlv.UnmarshalBinary(data)
CallUnmarshalBinary(data) ==
    /\ LET r == UnmarshalBinary(data)
       IN  call' = [op |-> "UnmarshalBinary", err |-> r.err, calls |-> 0,
                    data |-> data, tlv |-> r.tlv]
    /\ UNCHANGED <<Type, Recs, fakeMRBanks, hist, bank, replayErr, tampered, buf, decoded,
                   written, events, registerCfg, extracted>>

\* f, err := t.ParseToFakeTlv()
CallParseToFakeTlv(t) ==
    /\ LET r == ParseToFakeTlv(t)
       IN  call' = [op |-> "ParseToFakeTlv", err |-> r.err, calls |-> 0,
                    data |-> t.Value, tlv |-> t, f |-> r.f]
    /\ UNCHANGED <<Type, Recs, fakeMRBanks, hist, bank, replayErr, tampered, buf, decoded,
                   written, events, registerCfg, extracted>>

----------------------------------------------------------------------------
(* Firmware event logs: events and register configurations. *)

\* the event types of tcg (wellknown repeats some of them); the numbers do not
\* matter to the extractors, which compare types for equality
Separator == "EV_SEPARATOR"
SCRTMVersion == "EV_S_CRTM_VERSION"
NonhostInfo == "EV_NONHOST_INFO"
EFIAction == "EV_EFI_ACTION"
EFIBootServicesApplication == "EV_EFI_BOOT_SERVICES_APPLICATION"
EFIBootServicesDriver == "EV_EFI_BOOT_SERVICES_DRIVER"
EFIRuntimeServicesDriver == "EV_EFI_RUNTIME_SERVICES_DRIVER"

\* the types tcg.UntrustedParseEventType knows, among those of the model
EventTypes ==
    {Separator, SCRTMVersion, NonhostInfo, EFIAction, EFIBootServicesApplication,
     EFIBootServicesDriver, EFIRuntimeServicesDriver}

\* tcg.CallingEFIApplication, "Calling EFI Application from Boot Manager" and
\* a null byte
CallingEFIApplication ==
    <<67, 97, 108, 108, 105, 110, 103, 32, 69, 70, 73, 32, 65, 112, 112, 108, 105, 99,
      97, 116, 105, 111, 110, 32, 102, 114, 111, 109, 32, 66, 111, 111, 116, 32, 77, 97,
      110, 97, 103, 101, 114, 0>>

\* tcg.ExitBootServicesInvocation, "Exit Boot Services Invocation" and a null
\* byte
ExitBootServicesInvocation ==
    <<69, 120, 105, 116, 32, 66, 111, 111, 116, 32, 83, 101, 114, 118, 105, 99, 101,
      115, 32, 73, 110, 118, 111, 99, 97, 116, 105, 111, 110, 0>>

\* the hash algorithm of the bank the events were replayed against
EventHash == "SHA256"

\* a tcg.Event replayed against the bank: digest is what was extended, and
\* the event is marked verified when the digest is the hash of its data
Event(index, type, data, digest) ==
    [Index |-> index, Type |-> type, Data |-> data, Digest |-> digest,
     DigestVerified |-> digest = Sum(EventHash, data)]

\* an event whose digest is the hash of its data
Measured(index, type, data) == Event(index, type, data, Sum(EventHash, data))

\* DigestEquals(e, data): TRUE when it returns no error
DigestEquals(e, data) == e.Digest = Sum(EventHash, data)

\* TPMRegisterConfig and RTMRRegisterConfig
TPMRegisterConfig ==
    [Name |-> "PCR", FirmwareDriverIdx |-> 2, SecureBootIdx |-> 7, EFIAppIdx |-> 4,
     ExitBootServicesIdx |-> 5, LogType |-> "LOG_TYPE_TCG2"]

RTMRRegisterConfig ==
    [Name |-> "RTMR", FirmwareDriverIdx |-> 0, SecureBootIdx |-> 0, EFIAppIdx |-> 1,
     ExitBootServicesIdx |-> 1, LogType |-> "LOG_TYPE_CC"]

\* contains(set, value), set being a slice
contains(set, value) == \E i \in DOMAIN set : set[i] = value

\* the loop of getSeparatorInfo from value i on: the hasher is written to and
\* never reset, so it has taken in all the values up to the one it sums
RECURSIVE SeparatorDigests(_, _, _, _)
SeparatorDigests(hash, sepData, i, hashed) ==
    IF i > Len(sepData) THEN <<>>
    ELSE <<Sum(hash, hashed \o sepData[i])>>
            \o SeparatorDigests(hash, sepData, i + 1, hashed \o sepData[i])

\* getSeparatorInfo
getSeparatorInfo(hash) ==
    LET sepData == <<Zeroes(4), <<255, 255, 255, 255>>>>
    IN  [separatorData |-> sepData,
         separatorDigests |-> SeparatorDigests(hash, sepData, 1, <<>>)]

\* checkIfValidSeparator: the bool and the error ("nil" for none)
checkIfValidSeparator(event, sepInfo) ==
    IF event.Type # Separator /\ ~contains(sepInfo.separatorDigests, event.Digest)
    THEN [isSeparator |-> FALSE, err |-> "nil"]
    ELSE IF event.Type # Separator
    THEN [isSeparator |-> FALSE, err |-> "separator data but non-separator type"]
    ELSE IF ~event.DigestVerified
    THEN [isSeparator |-> FALSE, err |-> "unverified separator digest"]
    ELSE IF ~contains(sepInfo.separatorData, event.Data)
    THEN [isSeparator |-> FALSE, err |-> "invalid separator data"]
    ELSE [isSeparator |-> TRUE, err |-> "nil"]

\* what an extractor returns: the error ("nil" for none) and the state, a
\* sequence that is empty for a nil state and holds the state otherwise
Failed(err) == [err |-> err, state |-> << >>]

Returned(state) == [err |-> "nil", state |-> <<state>>]

\* no extractor was called on the events
NoExtract == [op |-> "none", err |-> "nil", state |-> << >>]

----------------------------------------------------------------------------
(* EfiDriverState. *)

\* the size of the fixed part of an EFI_IMAGE_LOAD_EVENT: the image's location,
\* length and link-time address and the length of the device path, 8 bytes each
EFIImageLoadHeaderSize == 32

\* the 64-bit little-endian number in the 8 bytes of b from offset off; only
\* numbers below 2^16 occur in the model's payloads, and a bigger one is
\* read as bigger than any payload
GetUint64LE(b, off) ==
    IF \E i \in 3..8 : b[off + i] # 0 THEN 65536
    ELSE b[off + 1] + 256 * b[off + 2]

\* tcg.ParseEFIImageLoad: TRUE when the payload holds the header and a device
\* path of the length the header gives
ParseEFIImageLoad(data) ==
    /\ Len(data) >= EFIImageLoadHeaderSize
    /\ Len(data) - EFIImageLoadHeaderSize >= GetUint64LE(data, 24)

\* the payload of an image load event with the device path given
ImageLoad(path) == Zeroes(24) \o <<Len(path), 0, 0, 0, 0, 0, 0, 0>> \o path

RECURSIVE EfiDriverLoopNotParsing(_, _, _, _)
EfiDriverLoopNotParsing(evts, cfg, i, st) ==
    IF i > Len(evts)
    THEN Returned([BootServicesDrivers |-> st.efiDriverStates,
                   RuntimeServicesDrivers |-> st.efiRuntimeDriverStates])
    ELSE IF evts[i].Index # cfg.FirmwareDriverIdx
    THEN EfiDriverLoopNotParsing(evts, cfg, i + 1, st)
    ELSE IF evts[i].Type \notin EventTypes
    THEN Failed("unrecognised event type")
    ELSE IF evts[i].Type = Separator
    THEN IF st.seenSeparator THEN Failed("duplicate separator")
         ELSE IF evts[i].Data # <<0, 0, 0, 0>> THEN Failed("invalid separator data")
         ELSE IF ~DigestEquals(evts[i], evts[i].Data) THEN Failed("invalid separator digest")
         ELSE EfiDriverLoopNotParsing(evts, cfg, i + 1, [st EXCEPT !.seenSeparator = TRUE])
    ELSE IF evts[i].Type = EFIBootServicesDriver /\ ~st.seenSeparator
    THEN EfiDriverLoopNotParsing(evts, cfg, i + 1,
             [st EXCEPT !.efiDriverStates = Append(@, evts[i].Digest)])
    ELSE IF evts[i].Type = EFIRuntimeServicesDriver /\ ~st.seenSeparator
    THEN EfiDriverLoopNotParsing(evts, cfg, i + 1,
             [st EXCEPT !.efiRuntimeDriverStates = Append(@, evts[i].Digest)])
    ELSE EfiDriverLoopNotParsing(evts, cfg, i + 1, st)

\* the loop of EfiDriverState from event i on; st holds seenSeparator and the
\* two driver lists
RECURSIVE EfiDriverLoop(_, _, _, _)
EfiDriverLoop(evts, cfg, i, st) ==
    IF i > Len(evts)
    THEN Returned([BootServicesDrivers |-> st.efiDriverStates,
                   RuntimeServicesDrivers |-> st.efiRuntimeDriverStates])
    ELSE IF evts[i].Index # cfg.FirmwareDriverIdx
    THEN EfiDriverLoop(evts, cfg, i + 1, st)
    ELSE IF evts[i].Type \notin EventTypes
    THEN Failed("unrecognised event type")
    ELSE IF evts[i].Type = Separator
    THEN IF st.seenSeparator THEN Failed("duplicate separator")
         ELSE IF evts[i].Data # <<0, 0, 0, 0>> THEN Failed("invalid separator data")
         ELSE IF ~DigestEquals(evts[i], evts[i].Data) THEN Failed("invalid separator digest")
         ELSE EfiDriverLoop(evts, cfg, i + 1, [st EXCEPT !.seenSeparator = TRUE])
    ELSE IF evts[i].Type = EFIBootServicesDriver /\ ~st.seenSeparator
    THEN IF ~ParseEFIImageLoad(evts[i].Data) THEN Failed("failed parsing EFI image load")
         ELSE EfiDriverLoop(evts, cfg, i + 1,
                  [st EXCEPT !.efiDriverStates = Append(@, evts[i].Digest)])
    ELSE IF evts[i].Type = EFIRuntimeServicesDriver /\ ~st.seenSeparator
    THEN IF ~ParseEFIImageLoad(evts[i].Data) THEN Failed("failed parsing EFI image load")
         ELSE EfiDriverLoop(evts, cfg, i + 1,
                  [st EXCEPT !.efiRuntimeDriverStates = Append(@, evts[i].Digest)])
    ELSE EfiDriverLoop(evts, cfg, i + 1, st)

\* EfiDriverState
EfiDriverState(evts, cfg) ==
    EfiDriverLoop(evts, cfg, 1,
        [seenSeparator |-> FALSE, efiDriverStates |-> <<>>, efiRuntimeDriverStates |-> <<>>])

----------------------------------------------------------------------------
(* EfiState. *)

\* the digests EfiState computes before its loop
EfiDigests(hash) ==
    [separatorInfo |-> getSeparatorInfo(hash),
     callingEFIAppDigest |-> Sum(hash, CallingEFIApplication),
     exitBootSvcDigest |-> Sum(hash, ExitBootServicesInvocation)]

\* the flags and the list EfiState's loop keeps
EfiLoopStart ==
    [efiAppStates |-> <<>>, seenSeparator4 |-> FALSE, seenSeparator5 |-> FALSE,
     seenCallingEfiApp |-> FALSE, seenExitBootServices |-> FALSE]

EfiAppEventInAnyOrder(event, d, st) ==
    LET calling == event.Digest = d.callingEFIAppDigest
        app == event.Type = EFIBootServicesApplication
        sep == checkIfValidSeparator(event, d.separatorInfo)
    IN  IF calling /\ event.Type # EFIAction
        THEN [err |-> "CallingEFIApp event but non EFIAction type", st |-> st]
        ELSE IF calling /\ ~event.DigestVerified
        THEN [err |-> "unverified CallingEFIApp digest", st |-> st]
        ELSE IF calling /\ st.seenCallingEfiApp
        THEN [err |-> "duplicate CallingEFIApp event", st |-> st]
        ELSE IF calling /\ st.seenSeparator4
        THEN [err |-> "CallingEFIApp event after separator event", st |-> st]
        ELSE IF sep.err # "nil"
        THEN [err |-> sep.err, st |-> st]
        ELSE IF sep.isSeparator /\ st.seenSeparator4
        THEN [err |-> "duplicate Separator event", st |-> st]
        ELSE [err |-> "nil",
              st |-> [st EXCEPT
                        !.seenCallingEfiApp = @ \/ calling,
                        !.efiAppStates = IF app THEN Append(@, event.Digest) ELSE @,
                        !.seenSeparator4 = @ \/ sep.isSeparator]]

EfiAppEventUntilSeparator(event, d, st) ==
    LET calling == event.Digest = d.callingEFIAppDigest
        app == event.Type = EFIBootServicesApplication
        seenCalling == st.seenCallingEfiApp \/ calling
        sep == checkIfValidSeparator(event, d.separatorInfo)
    IN  IF calling /\ event.Type # EFIAction
        THEN [err |-> "CallingEFIApp event but non EFIAction type", st |-> st]
        ELSE IF calling /\ ~event.DigestVerified
        THEN [err |-> "unverified CallingEFIApp digest", st |-> st]
        ELSE IF calling /\ st.seenCallingEfiApp
        THEN [err |-> "duplicate CallingEFIApp event", st |-> st]
        ELSE IF calling /\ st.seenSeparator4
        THEN [err |-> "CallingEFIApp event after separator event", st |-> st]
        ELSE IF app /\ ~seenCalling
        THEN [err |-> "EFIBootServicesApplication before CallingEFIApp event", st |-> st]
        ELSE IF sep.err # "nil"
        THEN [err |-> sep.err, st |-> st]
        ELSE IF sep.isSeparator /\ st.seenSeparator4
        THEN [err |-> "duplicate Separator event", st |-> st]
        ELSE [err |-> "nil",
              st |-> [st EXCEPT
                        !.seenCallingEfiApp = seenCalling,
                        !.efiAppStates =
                            IF app /\ ~st.seenSeparator4 THEN Append(@, event.Digest) ELSE @,
                        !.seenSeparator4 = @ \/ sep.isSeparator]]

\* what EfiState does with an event of the EFI app register: the error it
\* returns, or "nil" and the loop's new flags and list
EfiAppEvent(event, d, st) ==
    LET calling == event.Digest = d.callingEFIAppDigest
        app == event.Type = EFIBootServicesApplication
        seenCalling == st.seenCallingEfiApp \/ calling
        sep == checkIfValidSeparator(event, d.separatorInfo)
    IN  IF calling /\ event.Type # EFIAction
        THEN [err |-> "CallingEFIApp event but non EFIAction type", st |-> st]
        ELSE IF calling /\ ~event.DigestVerified
        THEN [err |-> "unverified CallingEFIApp digest", st |-> st]
        ELSE IF calling /\ st.seenCallingEfiApp
        THEN [err |-> "duplicate CallingEFIApp event", st |-> st]
        ELSE IF calling /\ st.seenSeparator4
        THEN [err |-> "CallingEFIApp event after separator event", st |-> st]
        ELSE IF app /\ ~seenCalling
        THEN [err |-> "EFIBootServicesApplication before CallingEFIApp event", st |-> st]
        ELSE IF sep.err # "nil"
        THEN [err |-> sep.err, st |-> st]
        ELSE IF sep.isSeparator /\ st.seenSeparator4
        THEN [err |-> "duplicate Separator event", st |-> st]
        ELSE [err |-> "nil",
              st |-> [st EXCEPT
                        !.seenCallingEfiApp = seenCalling,
                        !.efiAppStates = IF app THEN Append(@, event.Digest) ELSE @,
                        !.seenSeparator4 = @ \/ sep.isSeparator]]

EfiExitEventAllowingSeparators(event, d, st) ==
    LET exit == event.Digest = d.exitBootSvcDigest
        sep == checkIfValidSeparator(event, d.separatorInfo)
    IN  IF exit /\ event.Type # EFIAction
        THEN [err |-> "ExitBootServices event but non EFIAction type", st |-> st]
        ELSE IF exit /\ ~event.DigestVerified
        THEN [err |-> "unverified ExitBootServices digest", st |-> st]
        ELSE IF exit
        THEN [err |-> "nil", st |-> [st EXCEPT !.seenExitBootServices = TRUE]]
        ELSE IF sep.err # "nil"
        THEN [err |-> sep.err, st |-> st]
        ELSE [err |-> "nil", st |-> [st EXCEPT !.seenSeparator5 = @ \/ sep.isSeparator]]

\* the ExitBootServices block with one separator flag for the two registers
EfiExitEventSharingSeparator(event, d, st) ==
    LET exit == event.Digest = d.exitBootSvcDigest
        sep == checkIfValidSeparator(event, d.separatorInfo)
    IN  IF exit /\ event.Type # EFIAction
        THEN [err |-> "ExitBootServices event but non EFIAction type", st |-> st]
        ELSE IF exit /\ ~event.DigestVerified
        THEN [err |-> "unverified ExitBootServices digest", st |-> st]
        ELSE IF exit
        THEN [err |-> "nil", st |-> [st EXCEPT !.seenExitBootServices = TRUE]]
        ELSE IF sep.err # "nil"
        THEN [err |-> sep.err, st |-> st]
        ELSE IF sep.isSeparator /\ (st.seenSeparator4 \/ st.seenSeparator5)
        THEN [err |-> "duplicate Separator event", st |-> st]
        ELSE [err |-> "nil", st |-> [st EXCEPT !.seenSeparator5 = @ \/ sep.isSeparator]]

\* what EfiState does with an event of the ExitBootServices register
EfiExitEvent(event, d, st) ==
    LET exit == event.Digest = d.exitBootSvcDigest
        sep == checkIfValidSeparator(event, d.separatorInfo)
    IN  IF exit /\ event.Type # EFIAction
        THEN [err |-> "ExitBootServices event but non EFIAction type", st |-> st]
        ELSE IF exit /\ ~event.DigestVerified
        THEN [err |-> "unverified ExitBootServices digest", st |-> st]
        ELSE IF exit
        THEN [err |-> "nil", st |-> [st EXCEPT !.seenExitBootServices = TRUE]]
        ELSE IF sep.err # "nil"
        THEN [err |-> sep.err, st |-> st]
        ELSE IF sep.isSeparator /\ st.seenSeparator5
        THEN [err |-> "duplicate Separator event", st |-> st]
        ELSE [err |-> "nil", st |-> [st EXCEPT !.seenSeparator5 = @ \/ sep.isSeparator]]

\* the body of EfiState's loop for one event: the EFI app block, then the
\* ExitBootServices block, each when the event is on its register
EfiEvent(event, cfg, d, st) ==
    IF event.Index # cfg.EFIAppIdx /\ event.Index # cfg.ExitBootServicesIdx
    THEN [err |-> "nil", st |-> st]
    ELSE With(IF event.Index = cfg.EFIAppIdx THEN EfiAppEvent(event, d, st)
              ELSE [err |-> "nil", st |-> st],
              LAMBDA a :
                  IF a.err # "nil" \/ event.Index # cfg.ExitBootServicesIdx THEN a
                  ELSE EfiExitEvent(event, d, a.st))

RECURSIVE EfiLoopRejectingSecondExit(_, _, _, _, _)
EfiLoopRejectingSecondExit(evts, cfg, d, i, st) ==
    IF i > Len(evts) THEN [err |-> "nil", st |-> st]
    ELSE IF /\ st.seenExitBootServices
            /\ evts[i].Index = cfg.ExitBootServicesIdx
            /\ evts[i].Digest = d.exitBootSvcDigest
    THEN [err |-> "duplicate ExitBootServices event", st |-> st]
    ELSE With(EfiEvent(evts[i], cfg, d, st),
              LAMBDA r :
                  IF r.err # "nil" THEN r
                  ELSE EfiLoopRejectingSecondExit(evts, cfg, d, i + 1, r.st))

RECURSIVE EfiLoopWithoutBreak(_, _, _, _, _)
EfiLoopWithoutBreak(evts, cfg, d, i, st) ==
    IF i > Len(evts) THEN [err |-> "nil", st |-> st]
    ELSE With(EfiEvent(evts[i], cfg, d, st),
              LAMBDA r :
                  IF r.err # "nil" THEN r
                  ELSE EfiLoopWithoutBreak(evts, cfg, d, i + 1, r.st))

\* EfiState's loop from event i on: the error, or "nil" and the flags and
\* list at the end of the loop, which the ExitBootServices event breaks
RECURSIVE EfiLoop(_, _, _, _, _)
EfiLoop(evts, cfg, d, i, st) ==
    IF i > Len(evts) THEN [err |-> "nil", st |-> st]
    ELSE With(EfiEvent(evts[i], cfg, d, st),
              LAMBDA r :
                  IF r.err # "nil" \/ r.st.seenExitBootServices THEN r
                  ELSE EfiLoop(evts, cfg, d, i + 1, r.st))

EfiResultWithoutExit(evts, cfg, r) ==
    IF r.err # "nil" THEN Failed(r.err)
    ELSE With(EfiDriverState(evts, cfg),
              LAMBDA efiDriver :
                  IF efiDriver.err # "nil" THEN Failed(efiDriver.err)
                  ELSE Returned(
                           [Apps |-> r.st.efiAppStates,
                            BootServicesDrivers |-> efiDriver.state[1].BootServicesDrivers,
                            RuntimeServicesDrivers |->
                                efiDriver.state[1].RuntimeServicesDrivers]))

\* what EfiState returns after its loop
EfiResult(evts, cfg, r) ==
    IF r.err # "nil" THEN Failed(r.err)
    ELSE IF ~r.st.seenExitBootServices THEN [err |-> "nil", state |-> << >>]
    ELSE With(EfiDriverState(evts, cfg),
              LAMBDA efiDriver :
                  IF efiDriver.err # "nil" THEN Failed(efiDriver.err)
                  ELSE Returned(
                           [Apps |-> r.st.efiAppStates,
                            BootServicesDrivers |-> efiDriver.state[1].BootServicesDrivers,
                            RuntimeServicesDrivers |->
                                efiDriver.state[1].RuntimeServicesDrivers]))

\* EfiState
EfiState(hash, evts, cfg) ==
    With(EfiDigests(hash),
         LAMBDA d : With(EfiLoop(evts, cfg, d, 1, EfiLoopStart),
                         LAMBDA r : EfiResult(evts, cfg, r)))

----------------------------------------------------------------------------
(* PlatformState. *)

\* GceVirtualFirmwarePrefix, "GCE Virtual Firmware v" in little-endian UCS-2
GceVirtualFirmwarePrefix ==
    <<71, 0, 67, 0, 69, 0, 32, 0, 86, 0, 105, 0, 114, 0, 116, 0, 117, 0, 97, 0, 108, 0,
      32, 0, 70, 0, 105, 0, 114, 0, 109, 0, 119, 0, 97, 0, 114, 0, 101, 0, 32, 0, 118, 0>>

\* GCENonHostInfoSignature, "GCE NonHostInfo" and a null byte
GCENonHostInfoSignature ==
    <<71, 67, 69, 32, 78, 111, 110, 72, 111, 115, 116, 73, 110, 102, 111, 0>>

\* pb.GCEConfidentialTechnology
GCEConfidentialTechnology_NONE == 0
GCEConfidentialTechnology_AMD_SEV_SNP == 4

\* the bytes of version from the prefix on that are not null, or "invalid"
\* when one of them is at an odd offset
RECURSIVE AsciiVersion(_, _, _)
AsciiVersion(version, prefixLen, i) ==
    IF prefixLen + i + 1 > Len(version) THEN <<>>
    ELSE IF version[prefixLen + i + 1] = 0 THEN AsciiVersion(version, prefixLen, i + 1)
    ELSE IF i % 2 # 0 THEN <<-1>>
    ELSE <<version[prefixLen + i + 1]>> \o AsciiVersion(version, prefixLen, i + 1)

\* the number the decimal digits of s stand for, from the number n of the
\* digits before them
RECURSIVE Digits(_, _)
Digits(s, n) ==
    IF s = <<>> THEN n ELSE Digits(Tail(s), 10 * n + (Head(s) - 48))

\* strconv.Atoi of strings of at most 9 digits with an optional sign, which
\* fit an int; longer strings do not occur in the model
Atoi(s) ==
    LET signed == s # <<>> /\ Head(s) \in {43, 45}
        digits == IF signed THEN Tail(s) ELSE s
    IN  IF digits = <<>> \/ Len(digits) > 9 \/ \E i \in DOMAIN digits : digits[i] \notin 48..57
        THEN [err |-> "invalid syntax", n |-> 0]
        ELSE [err |-> "nil",
              n |-> IF signed /\ Head(s) = 45 THEN 0 - Digits(digits, 0)
                    ELSE Digits(digits, 0)]

\* uint32(n) as its high and low 16 bits, for an n of less than 32 bits
Uint32(n) ==
    IF n >= 0 THEN <<n \div 65536, n % 65536>>
    ELSE <<65535 - ((0 - n - 1) \div 65536), 65535 - ((0 - n - 1) % 65536)>>

\* ConvertSCRTMVersionToGCEFirmwareVersion
ConvertSCRTMVersionToGCEFirmwareVersion(version) ==
    LET prefixLen == Len(GceVirtualFirmwarePrefix)
    IN  IF Len(version) <= prefixLen \/ Len(version) % 2 # 0
        THEN [err |-> "length of GCE version is invalid", version |-> Uint32(0)]
        ELSE IF SubSeq(version, 1, prefixLen) # GceVirtualFirmwarePrefix
        THEN [err |-> "prefix for GCE version is missing", version |-> Uint32(0)]
        ELSE With(AsciiVersion(version, prefixLen, 0),
                  LAMBDA asciiVersion :
                      IF -1 \in Range(asciiVersion)
                      THEN [err |-> "invalid UCS-2 in the version string",
                            version |-> Uint32(0)]
                      ELSE IF Atoi(asciiVersion).err # "nil"
                      THEN [err |-> Atoi(asciiVersion).err, version |-> Uint32(0)]
                      ELSE [err |-> "nil", version |-> Uint32(Atoi(asciiVersion).n)])

\* ParseGCENonHostInfo
ParseGCENonHostInfo(nonHostInfo) ==
    LET prefixLen == Len(GCENonHostInfoSignature)
    IN  IF Len(nonHostInfo) < prefixLen + 1
        THEN [err |-> "GCE Non-Host info is too short", tech |-> GCEConfidentialTechnology_NONE]
        ELSE IF SubSeq(nonHostInfo, 1, prefixLen) # GCENonHostInfoSignature
        THEN [err |-> "prefix for GCE Non-Host info is missing",
              tech |-> GCEConfidentialTechnology_NONE]
        ELSE IF nonHostInfo[prefixLen + 1] > GCEConfidentialTechnology_AMD_SEV_SNP
        THEN [err |-> "unknown GCE Confidential Technology",
              tech |-> GCEConfidentialTechnology_NONE]
        ELSE [err |-> "nil", tech |-> nonHostInfo[prefixLen + 1]]

RECURSIVE PlatformLoopPastSeparator(_, _, _, _)
PlatformLoopPastSeparator(evts, sepInfo, i, st) ==
    IF i > Len(evts) THEN [err |-> "nil", st |-> st]
    ELSE IF evts[i].Index # 0 THEN PlatformLoopPastSeparator(evts, sepInfo, i + 1, st)
    ELSE IF checkIfValidSeparator(evts[i], sepInfo).err # "nil"
    THEN [err |-> checkIfValidSeparator(evts[i], sepInfo).err, st |-> st]
    ELSE IF evts[i].Type = SCRTMVersion
    THEN IF ~evts[i].DigestVerified THEN [err |-> "invalid SCRTM version event", st |-> st]
         ELSE PlatformLoopPastSeparator(evts, sepInfo, i + 1,
                  [st EXCEPT !.versionString = evts[i].Data])
    ELSE IF evts[i].Type = NonhostInfo
    THEN IF ~evts[i].DigestVerified THEN [err |-> "invalid Non-Host info event", st |-> st]
         ELSE PlatformLoopPastSeparator(evts, sepInfo, i + 1,
                  [st EXCEPT !.nonHostInfo = evts[i].Data])
    ELSE PlatformLoopPastSeparator(evts, sepInfo, i + 1, st)

\* the loop of PlatformState from event i on: the error, or "nil" and the
\* payloads captured at the end of the loop, which a separator breaks
RECURSIVE PlatformLoop(_, _, _, _)
PlatformLoop(evts, sepInfo, i, st) ==
    IF i > Len(evts) THEN [err |-> "nil", st |-> st]
    ELSE IF evts[i].Index # 0 THEN PlatformLoop(evts, sepInfo, i + 1, st)
    ELSE IF checkIfValidSeparator(evts[i], sepInfo).err # "nil"
    THEN [err |-> checkIfValidSeparator(evts[i], sepInfo).err, st |-> st]
    ELSE IF checkIfValidSeparator(evts[i], sepInfo).isSeparator
    THEN [err |-> "nil", st |-> st]
    ELSE IF evts[i].Type = SCRTMVersion
    THEN IF ~evts[i].DigestVerified THEN [err |-> "invalid SCRTM version event", st |-> st]
         ELSE PlatformLoop(evts, sepInfo, i + 1, [st EXCEPT !.versionString = evts[i].Data])
    ELSE IF evts[i].Type = NonhostInfo
    THEN IF ~evts[i].DigestVerified THEN [err |-> "invalid Non-Host info event", st |-> st]
         ELSE PlatformLoop(evts, sepInfo, i + 1, [st EXCEPT !.nonHostInfo = evts[i].Data])
    ELSE PlatformLoop(evts, sepInfo, i + 1, st)

\* the state PlatformState builds from the payloads it captured
PlatformResult(r) ==
    IF r.err # "nil" THEN Failed(r.err)
    ELSE Returned(
             [Firmware |->
                  IF ConvertSCRTMVersionToGCEFirmwareVersion(r.st.versionString).err = "nil"
                  THEN [GceVersion |->
                            ConvertSCRTMVersionToGCEFirmwareVersion(r.st.versionString).version]
                  ELSE [ScrtmVersionId |-> r.st.versionString],
              Technology |->
                  IF ParseGCENonHostInfo(r.st.nonHostInfo).err = "nil"
                  THEN ParseGCENonHostInfo(r.st.nonHostInfo).tech
                  ELSE GCEConfidentialTechnology_NONE])

\* PlatformState
PlatformState(hash, evts) ==
    With(getSeparatorInfo(hash),
         LAMBDA sepInfo :
             With(PlatformLoop(evts, sepInfo, 1, [versionString |-> <<>>, nonHostInfo |-> <<>>]),
                  LAMBDA r : PlatformResult(r)))

----------------------------------------------------------------------------
(* GrubStateFromTPMLog, GrubStateFromRTMRLog and LinuxKernelStateFromGRUB. *)

\* tcg.Ipl and tcg.EventTag
Ipl == "EV_IPL"
EventTag == "EV_EVENT_TAG"

\* "kernel_cmdline: "
newGrubKernelCmdlinePrefix ==
    <<107, 101, 114, 110, 101, 108, 95, 99, 109, 100, 108, 105, 110, 101, 58, 32>>

\* "grub_kernel_cmdline "
oldGrubKernelCmdlinePrefix ==
    <<103, 114, 117, 98, 95, 107, 101, 114, 110, 101, 108, 95, 99, 109, 100, 108, 105,
      110, 101, 32>>

\* "grub_cmd: ", "kernel_cmdline: ", "module_cmdline: ", "grub_kernel_cmdline "
\* and "grub_cmd ", in the order of the code
validPrefixes ==
    << <<103, 114, 117, 98, 95, 99, 109, 100, 58, 32>>,
       newGrubKernelCmdlinePrefix,
       <<109, 111, 100, 117, 108, 101, 95, 99, 109, 100, 108, 105, 110, 101, 58, 32>>,
       oldGrubKernelCmdlinePrefix,
       <<103, 114, 117, 98, 95, 99, 109, 100, 32>> >>

\* bytes.HasPrefix
HasPrefix(s, prefix) == Len(s) >= Len(prefix) /\ SubSeq(s, 1, Len(prefix)) = prefix

\* the loop over prefixes that stops at the first prefix of data: its length,
\* or -1 when no prefix matches
PrefixLen(prefixes, data) ==
    IF \E k \in DOMAIN prefixes : HasPrefix(data, prefixes[k])
    THEN Len(prefixes[CHOOSE k \in DOMAIN prefixes :
                          /\ HasPrefix(data, prefixes[k])
                          /\ \A j \in 1..(k - 1) : ~HasPrefix(data, prefixes[j])])
    ELSE -1

\* data[at:] of a slice, at counting from 0
SliceFrom(data, at) == SubSeq(data, at + 1, Len(data))

\* verifyDataDigest: TRUE when it returns no error
verifyDataDigest(hash, data, digest) == digest = Sum(hash, data)

\* verifyNullTerminatedDataDigest: TRUE when it returns no error
verifyNullTerminatedDataDigest(hash, data, digest) ==
    /\ Len(data) > 0
    /\ data[Len(data)] = 0
    /\ \/ verifyDataDigest(hash, data, digest)
       \/ verifyDataDigest(hash, SubSeq(data, 1, Len(data) - 1), digest)

\* the check of the digest that takes the last byte of every command for a
\* terminator and accepts the digest of the command without it
GrubCommandDigestWithoutLastByte(hash, rawData, suffixAt, digest) ==
    IF Len(SliceFrom(rawData, suffixAt)) > 0
          /\ \/ verifyDataDigest(hash, SliceFrom(rawData, suffixAt), digest)
             \/ verifyDataDigest(hash, SubSeq(rawData, suffixAt + 1, Len(rawData) - 1), digest)
    THEN "nil"
    ELSE IF verifyDataDigest(hash, SliceFrom(rawData, suffixAt), digest)
         THEN "nil"
         ELSE "invalid GRUB event"

\* the check of the digest that accepts the digest of the suffix alone,
\* null-terminated or not
GrubCommandDigestOfSuffixOnly(hash, rawData, suffixAt, digest) ==
    IF verifyDataDigest(hash, SliceFrom(rawData, suffixAt), digest)
    THEN "nil"
    ELSE "invalid GRUB event"

\* the check of the digest of a command whose prefix ends at suffixAt: the
\* error, "nil" for none
GrubCommandDigest(hash, rawData, suffixAt, digest) ==
    IF Len(SliceFrom(rawData, suffixAt)) > 0 /\ rawData[Len(rawData)] = 0
    THEN IF verifyNullTerminatedDataDigest(hash, SliceFrom(rawData, suffixAt), digest)
         THEN "nil"
         ELSE "invalid GRUB event (null-terminated)"
    ELSE IF verifyDataDigest(hash, SliceFrom(rawData, suffixAt), digest)
         THEN "nil"
         ELSE "invalid GRUB event"

\* the loop of GrubStateFromTPMLog with events of every type but EV_IPL skipped
RECURSIVE GrubTPMLoopSkippingTypes(_, _, _, _)
GrubTPMLoopSkippingTypes(hash, evts, i, st) ==
    IF i > Len(evts) THEN [err |-> "nil", st |-> st]
    ELSE IF evts[i].Index # 8 /\ evts[i].Index # 9
    THEN GrubTPMLoopSkippingTypes(hash, evts, i + 1, st)
    ELSE IF evts[i].Type # Ipl THEN GrubTPMLoopSkippingTypes(hash, evts, i + 1, st)
    ELSE IF evts[i].Index = 9
    THEN GrubTPMLoopSkippingTypes(hash, evts, i + 1,
                     [st EXCEPT !.files =
                         Append(@, [Digest |-> evts[i].Digest,
                                    UntrustedFilename |-> evts[i].Data])])
    ELSE IF PrefixLen(validPrefixes, evts[i].Data) = -1
    THEN [err |-> "invalid prefix seen", st |-> st]
    ELSE IF GrubCommandDigest(hash, evts[i].Data, PrefixLen(validPrefixes, evts[i].Data),
                              evts[i].Digest) # "nil"
    THEN [err |-> GrubCommandDigest(hash, evts[i].Data,
                                    PrefixLen(validPrefixes, evts[i].Data), evts[i].Digest),
          st |-> st]
    ELSE GrubTPMLoopSkippingTypes(hash, evts, i + 1,
                                  [st EXCEPT !.commands = Append(@, evts[i].Data)])

\* the loop of GrubStateFromTPMLog from event i on
RECURSIVE GrubTPMLoop(_, _, _, _)
GrubTPMLoop(hash, evts, i, st) ==
    IF i > Len(evts) THEN [err |-> "nil", st |-> st]
    ELSE IF evts[i].Index # 8 /\ evts[i].Index # 9 THEN GrubTPMLoop(hash, evts, i + 1, st)
    ELSE IF evts[i].Type = EventTag THEN GrubTPMLoop(hash, evts, i + 1, st)
    ELSE IF evts[i].Type # Ipl THEN [err |-> "invalid event type, expected EV_IPL", st |-> st]
    ELSE IF evts[i].Index = 9
    THEN GrubTPMLoop(hash, evts, i + 1,
                     [st EXCEPT !.files =
                         Append(@, [Digest |-> evts[i].Digest,
                                    UntrustedFilename |-> evts[i].Data])])
    ELSE IF PrefixLen(validPrefixes, evts[i].Data) = -1
    THEN [err |-> "invalid prefix seen", st |-> st]
    ELSE IF GrubCommandDigest(hash, evts[i].Data, PrefixLen(validPrefixes, evts[i].Data),
                              evts[i].Digest) # "nil"
    THEN [err |-> GrubCommandDigest(hash, evts[i].Data,
                                    PrefixLen(validPrefixes, evts[i].Data), evts[i].Digest),
          st |-> st]
    ELSE GrubTPMLoop(hash, evts, i + 1, [st EXCEPT !.commands = Append(@, evts[i].Data)])

\* GrubStateFromTPMLog that returns a state without commands and files
GrubTPMResultOfNothing(r) ==
    IF r.err # "nil" THEN Failed(r.err)
    ELSE Returned([Files |-> r.st.files, Commands |-> r.st.commands])

\* what GrubStateFromTPMLog returns after its loop
GrubTPMResult(r) ==
    IF r.err # "nil" THEN Failed(r.err)
    ELSE IF Len(r.st.files) = 0 /\ Len(r.st.commands) = 0
    THEN Failed("no GRUB measurements found")
    ELSE Returned([Files |-> r.st.files, Commands |-> r.st.commands])

\* GrubStateFromTPMLog
GrubStateFromTPMLog(hash, evts) ==
    With(GrubTPMLoop(hash, evts, 1, [files |-> <<>>, commands |-> <<>>]),
         LAMBDA r : GrubTPMResult(r))

\* the loop of GrubStateFromRTMRLog from event i on
RECURSIVE GrubRTMRLoop(_, _, _, _)
GrubRTMRLoop(hash, evts, i, st) ==
    IF i > Len(evts) THEN [err |-> "nil", st |-> st]
    ELSE IF evts[i].Index # 3 THEN GrubRTMRLoop(hash, evts, i + 1, st)
    ELSE IF evts[i].Type = EventTag THEN GrubRTMRLoop(hash, evts, i + 1, st)
    ELSE IF evts[i].Type # Ipl THEN [err |-> "invalid event type, expected EV_IPL", st |-> st]
    ELSE IF PrefixLen(validPrefixes, evts[i].Data) = -1
    THEN GrubRTMRLoop(hash, evts, i + 1, st)
    ELSE IF GrubCommandDigest(hash, evts[i].Data, PrefixLen(validPrefixes, evts[i].Data),
                              evts[i].Digest) # "nil"
    THEN [err |-> GrubCommandDigest(hash, evts[i].Data,
                                    PrefixLen(validPrefixes, evts[i].Data), evts[i].Digest),
          st |-> st]
    ELSE GrubRTMRLoop(hash, evts, i + 1, [st EXCEPT !.commands = Append(@, evts[i].Data)])

\* what GrubStateFromRTMRLog returns after its loop; it has no files
GrubRTMRResult(r) ==
    IF r.err # "nil" THEN Failed(r.err)
    ELSE IF Len(r.st.commands) = 0 THEN Failed("no GRUB measurements found")
    ELSE Returned([Files |-> <<>>, Commands |-> r.st.commands])

\* GrubStateFromRTMRLog
GrubStateFromRTMRLog(hash, evts) ==
    With(GrubRTMRLoop(hash, evts, 1, [files |-> <<>>, commands |-> <<>>]),
         LAMBDA r : GrubRTMRResult(r))

\* getGrubKernelCmdlineSuffix
getGrubKernelCmdlineSuffix(grubCmd) ==
    PrefixLen(<<oldGrubKernelCmdlinePrefix, newGrubKernelCmdlinePrefix>>, grubCmd)

\* grub.GetCommands(), which is empty for a nil GrubState
GetCommands(grub) == IF grub = << >> THEN << >> ELSE grub[1].Commands

\* the loop of LinuxKernelStateFromGRUB that takes the last of several kernel
\* command lines
RECURSIVE KernelLoopKeepingLast(_, _, _)
KernelLoopKeepingLast(commands, i, st) ==
    IF i > Len(commands) THEN [err |-> "nil", st |-> st]
    ELSE IF getGrubKernelCmdlineSuffix(commands[i]) = -1
    THEN KernelLoopKeepingLast(commands, i + 1, st)
    ELSE KernelLoopKeepingLast(commands, i + 1,
                               [seen |-> TRUE,
                                cmdline |-> SliceFrom(commands[i],
                                                      getGrubKernelCmdlineSuffix(commands[i]))])

\* the loop of LinuxKernelStateFromGRUB from command i on
RECURSIVE KernelLoop(_, _, _)
KernelLoop(commands, i, st) ==
    IF i > Len(commands) THEN [err |-> "nil", st |-> st]
    ELSE IF getGrubKernelCmdlineSuffix(commands[i]) = -1 THEN KernelLoop(commands, i + 1, st)
    ELSE IF st.seen
    THEN [err |-> "more than one kernel commandline in GRUB commands", st |-> st]
    ELSE KernelLoop(commands, i + 1,
                    [seen |-> TRUE,
                     cmdline |-> SliceFrom(commands[i],
                                           getGrubKernelCmdlineSuffix(commands[i]))])

\* LinuxKernelStateFromGRUB, grub being a sequence that is empty for nil
LinuxKernelStateFromGRUB(grub) ==
    With(KernelLoop(GetCommands(grub), 1, [seen |-> FALSE, cmdline |-> <<>>]),
         LAMBDA r : IF r.err # "nil" THEN Failed(r.err)
                    ELSE Returned([CommandLine |-> r.st.cmdline]))

----------------------------------------------------------------------------
(* SecureBootState and FirmwareLogState. *)

\* tcg.EFIVariableDriverConfig and tcg.EFIVariableAuthority
EFIVariableDriverConfig == "EV_EFI_VARIABLE_DRIVER_CONFIG"
EFIVariableAuthority == "EV_EFI_VARIABLE_AUTHORITY"

\* the variables of Secure Boot; the model reduces a UEFI_VARIABLE_DATA to one
\* byte that names the variable by its place in this list and the bytes of
\* the variable's value
UEFIVariableNames == <<"SecureBoot", "PK", "KEK", "db", "dbx">>

UEFIVariableData(name, value) ==
    <<CHOOSE k \in DOMAIN UEFIVariableNames : UEFIVariableNames[k] = name>> \o value

\* the parse of a UEFI_VARIABLE_DATA
ParseUEFIVariableData(data) ==
    IF Len(data) = 0 \/ data[1] \notin DOMAIN UEFIVariableNames
    THEN [err |-> "invalid UEFI variable data", name |-> "", value |-> <<>>]
    ELSE [err |-> "nil", name |-> UEFIVariableNames[data[1]], value |-> Tail(data)]

\* Opts{}: no loader and a SecureBoot variable that must hold one byte
UnsupportedLoader == "UnsupportedLoader"
GRUB == "GRUB"
Opts(loader, allowEmptySBVar) == [Loader |-> loader, AllowEmptySBVar |-> allowEmptySBVar]

\* what ParseSecurebootState has before its first event
SecurebootStart ==
    [seenSeparator |-> FALSE, Enabled |-> FALSE,
     PlatformKeys |-> <<>>, ExchangeKeys |-> <<>>, PermittedKeys |-> <<>>,
     ForbiddenKeys |-> <<>>, PreSeparatorAuthority |-> <<>>,
     PostSeparatorAuthority |-> <<>>]

\* one EV_EFI_VARIABLE_DRIVER_CONFIG event of the Secure Boot register
SecurebootVariable(v, opts, st) ==
    IF v.err # "nil" THEN [err |-> v.err, st |-> st]
    ELSE IF v.name = "SecureBoot"
    THEN IF v.value \in {<<0>>, <<1>>}
         THEN [err |-> "nil", st |-> [st EXCEPT !.Enabled = (v.value = <<1>>)]]
         ELSE IF v.value = <<>> /\ opts.AllowEmptySBVar
         THEN [err |-> "nil", st |-> [st EXCEPT !.Enabled = FALSE]]
         ELSE [err |-> "invalid SecureBoot variable", st |-> st]
    ELSE [err |-> "nil",
          st |-> CASE v.name = "PK" -> [st EXCEPT !.PlatformKeys = Append(@, v.value)]
                   [] v.name = "KEK" -> [st EXCEPT !.ExchangeKeys = Append(@, v.value)]
                   [] v.name = "db" -> [st EXCEPT !.PermittedKeys = Append(@, v.value)]
                   [] v.name = "dbx" -> [st EXCEPT !.ForbiddenKeys = Append(@, v.value)]]

\* one event of the Secure Boot register
SecurebootEvent(event, opts, st) ==
    IF event.Type = Separator
    THEN IF st.seenSeparator THEN [err |-> "duplicate separator", st |-> st]
         ELSE [err |-> "nil", st |-> [st EXCEPT !.seenSeparator = TRUE]]
    ELSE IF event.Type = EFIVariableDriverConfig
    THEN SecurebootVariable(ParseUEFIVariableData(event.Data), opts, st)
    ELSE IF event.Type = EFIVariableAuthority
    THEN IF st.seenSeparator
         THEN [err |-> "nil", st |-> [st EXCEPT !.PostSeparatorAuthority = Append(@, event.Data)]]
         ELSE [err |-> "nil", st |-> [st EXCEPT !.PreSeparatorAuthority = Append(@, event.Data)]]
    ELSE [err |-> "nil", st |-> st]

\* the loop of ParseSecurebootState from event i on
RECURSIVE SecurebootLoop(_, _, _, _, _)
SecurebootLoop(evts, cfg, opts, i, st) ==
    IF i > Len(evts) THEN [err |-> "nil", st |-> st]
    ELSE IF evts[i].Index # cfg.SecureBootIdx THEN SecurebootLoop(evts, cfg, opts, i + 1, st)
    ELSE With(SecurebootEvent(evts[i], opts, st),
              LAMBDA r : IF r.err # "nil" THEN r
                         ELSE SecurebootLoop(evts, cfg, opts, i + 1, r.st))

\* ParseSecurebootState
ParseSecurebootState(replayEvents, cfg, opts) ==
    With(SecurebootLoop(replayEvents, cfg, opts, 1, SecurebootStart),
         LAMBDA r : IF r.err # "nil" THEN Failed(r.err) ELSE Returned(r.st))

\* SecureBootState; the certificates and hashes of a database are left as the
\* values of the variables
SecureBootState(replayEvents, cfg, opts) ==
    With(ParseSecurebootState(replayEvents, cfg, opts),
         LAMBDA attestSbState :
             IF attestSbState.err # "nil" THEN Failed("failed to parse SecureBootState")
             ELSE IF Len(attestSbState.state[1].PreSeparatorAuthority) # 0
             THEN Failed("event log contained pre-separator authorities")
             ELSE Returned([Enabled |-> attestSbState.state[1].Enabled,
                            Db |-> attestSbState.state[1].PermittedKeys,
                            Dbx |-> attestSbState.state[1].ForbiddenKeys,
                            Authority |-> attestSbState.state[1].PostSeparatorAuthority,
                            Pk |-> attestSbState.state[1].PlatformKeys,
                            Kek |-> attestSbState.state[1].ExchangeKeys]))

\* registerCfg.PlatformExtracter and registerCfg.GRUBExtracter
PlatformExtracter(cfg, hash, evts) == PlatformState(hash, evts)

GRUBExtracter(cfg, hash, evts) ==
    IF cfg.Name = "PCR" THEN GrubStateFromTPMLog(hash, evts)
    ELSE GrubStateFromRTMRLog(hash, evts)

\* errors.Join over the errors of the extractors that were called, in the order
\* of the calls: the errors that are not nil
Join(errs) == SelectSeq(errs, LAMBDA e : e # "nil")

\* what FirmwareLogState has of an extractor that it did not call
NotCalled == [err |-> "nil", state |-> << >>]

\* FirmwareLogState that returns what it has at the first extractor that
\* fails, without calling the extractors after it
SubExtractorsUntilFailure(evts, hash, cfg, opts) ==
    With(PlatformExtracter(cfg, hash, evts),
         LAMBDA platform :
             With(IF platform.err = "nil" THEN SecureBootState(evts, cfg, opts) ELSE NotCalled,
                  LAMBDA sbState :
                      [platform |-> platform,
                       sbState |-> sbState,
                       efiState |-> IF platform.err = "nil" /\ sbState.err = "nil"
                                    THEN EfiState(hash, evts, cfg) ELSE NotCalled,
                       grub |-> NotCalled,
                       kernel |-> NotCalled]))

\* the extractors FirmwareLogState calls, in the order of the calls; without
\* GRUB as the loader the last two are not called
SubExtractors(evts, hash, cfg, opts) ==
    With(IF opts.Loader = GRUB THEN GRUBExtracter(cfg, hash, evts) ELSE NotCalled,
         LAMBDA grub :
             [platform |-> PlatformExtracter(cfg, hash, evts),
              sbState |-> SecureBootState(evts, cfg, opts),
              efiState |-> EfiState(hash, evts, cfg),
              grub |-> grub,
              kernel |-> IF opts.Loader = GRUB THEN LinuxKernelStateFromGRUB(grub.state)
                         ELSE NotCalled])

\* what FirmwareLogState returns from what the extractors returned; the
\* RawEvents of the state, a copy of the events, are left out
FirmwareLogResult(hash, cfg, r) ==
    [joined |-> Join(<<r.platform.err, r.sbState.err, r.efiState.err, r.grub.err,
                       r.kernel.err>>),
     state |-> <<[Platform |-> r.platform.state,
                  SecureBoot |-> r.sbState.state,
                  Efi |-> r.efiState.state,
                  Hash |-> HashToAlgorithm(hash),
                  Grub |-> r.grub.state,
                  LinuxKernel |-> r.kernel.state,
                  LogType |-> cfg.LogType]>>]

\* FirmwareLogState: the joined errors, empty for a nil error, and the state;
\* a hash that tpm2.HashToAlgorithm does not know ends the call at once
FirmwareLogState(evts, hash, cfg, opts) ==
    IF hash \notin HashAlgos THEN [joined |-> <<"unsupported hash">>, state |-> << >>]
    ELSE With(SubExtractors(evts, hash, cfg, opts),
              LAMBDA r : FirmwareLogResult(hash, cfg, r))

----------------------------------------------------------------------------
(* The calls of the extractors on a list of replayed events. *)

\* the replayed events get one more event; what was extracted from the
\* shorter list is dropped
Observe(event, max) ==
    /\ Len(events) < max
    /\ events' = Append(events, event)
    /\ extracted' = NoExtract
    /\ UNCHANGED <<celVars, registerCfg>>

\* state, err := EfiState(hash, events, registerCfg)
CallEfiState ==
    /\ extracted' =
           With(EfiState(EventHash, events, registerCfg),
                LAMBDA r : [op |-> "EfiState", err |-> r.err, state |-> r.state])
    /\ UNCHANGED <<celVars, events, registerCfg>>

\* state, err := EfiDriverState(events, registerCfg)
CallEfiDriverState ==
    /\ extracted' =
           With(EfiDriverState(events, registerCfg),
                LAMBDA r : [op |-> "EfiDriverState", err |-> r.err, state |-> r.state])
    /\ UNCHANGED <<celVars, events, registerCfg>>

\* state, err := PlatformState(hash, events)
CallPlatformState ==
    /\ extracted' =
           With(PlatformState(EventHash, events),
                LAMBDA r : [op |-> "PlatformState", err |-> r.err, state |-> r.state])
    /\ UNCHANGED <<celVars, events, registerCfg>>

\* state, err := GrubStateFromTPMLog(hash, events)
CallGrubStateFromTPMLog ==
    /\ extracted' =
           With(GrubStateFromTPMLog(EventHash, events),
                LAMBDA r : [op |-> "GrubStateFromTPMLog", err |-> r.err, state |-> r.state])
    /\ UNCHANGED <<celVars, events, registerCfg>>

\* state, err := GrubStateFromRTMRLog(hash, events)
CallGrubStateFromRTMRLog ==
    /\ extracted' =
           With(GrubStateFromRTMRLog(EventHash, events),
                LAMBDA r : [op |-> "GrubStateFromRTMRLog", err |-> r.err, state |-> r.state])
    /\ UNCHANGED <<celVars, events, registerCfg>>

\* kernel, err := LinuxKernelStateFromGRUB(grub), grub being the state a GRUB
\* extractor returned, which the result keeps
CallLinuxKernelStateFromGRUB ==
    /\ extracted.op \in {"GrubStateFromTPMLog", "GrubStateFromRTMRLog"}
    /\ extracted' =
           With(LinuxKernelStateFromGRUB(extracted.state),
                LAMBDA r : [op |-> "LinuxKernelStateFromGRUB", err |-> r.err,
                            state |-> r.state, grub |-> extracted.state])
    /\ UNCHANGED <<celVars, events, registerCfg>>

\* e.Data[len(e.Data)-1] = b on a replayed event whose data ends in a null
\* byte, as the tests change the null terminator of a GRUB command; the digest
\* and the verification of the event stay what the replay made them
ModifyNullTerminator(i, b) ==
    /\ i \in DOMAIN events
    /\ Len(events[i].Data) > 0
    /\ events[i].Data[Len(events[i].Data)] = 0
    /\ events' = [events EXCEPT ![i].Data[Len(events[i].Data)] = b]
    /\ extracted' = NoExtract
    /\ UNCHANGED <<celVars, registerCfg>>

\* fs, err := FirmwareLogState(events, hash, registerCfg, opts); the result keeps
\* the hash and the options of the call
CallFirmwareLogState(hash, opts) ==
    /\ extracted' =
           With(FirmwareLogState(events, hash, registerCfg, opts),
                LAMBDA r : [op |-> "FirmwareLogState",
                            err |-> IF r.joined = <<>> THEN "nil" ELSE "joined",
                            state |-> r.state, joined |-> r.joined,
                            hash |-> hash, opts |-> opts])
    /\ UNCHANGED <<celVars, events, registerCfg>>

----------------------------------------------------------------------------

InitCEL ==
    /\ Type \in MRTypes
    /\ Recs = <<>>
    /\ fakeMRBanks = CreateFakeRot
    /\ call = NoCall
    /\ hist = [ok |-> 0, failed |-> 0, algos |-> {}, indices |-> {}]
    /\ bank = NoBank
    /\ replayErr = NoReplay
    /\ tampered = << >>
    /\ buf = <<>>
    /\ decoded = NoDecode
    /\ written = NoneWritten

Init ==
    /\ InitCEL
    /\ events = <<>>
    /\ registerCfg = TPMRegisterConfig
    /\ extracted = NoExtract

\* the log grows by AppendEvent alone
Next ==
    \/ \E event \in Events, bankAlgos \in AlgoLists, mrIndex \in MRIndices :
           AppendEvent(event, bankAlgos, mrIndex)

Spec == Init /\ [][Next]_vars

\* the digests, the banks and the indices ExtendMR is called with: digests of
\* every algorithm's size and of none, a bank the root of trust was not
\* created with, and indices on both sides of its registers
ExtendDigests ==
    {<<>>} \cup {Zeroes(HashSize(h)) : h \in Range(measuredHashes)}
           \cup {Sum(h, <<1>>) : h \in Range(measuredHashes)}

ExtendIndices == {-1, 0, NumIdxs - 1, NumIdxs}

NextROT ==
    \E idx \in ExtendIndices, dgst \in ExtendDigests, alg \in HashAlgos :
        CallExtendMR(FakeMR(idx, dgst, alg))

SpecROT == Init /\ [][NextROT]_vars

\* a log made by NewPCR is measured into the ROT and replayed against banks
\* read from the ROT, to which the caller may add registers, or built by
\* the caller
InitPCR == Init /\ Type = PCRType

\* appendFakeMREventOrFatal(t, cel, rot, mrIndex, measuredHashes, event), for
\* the events and the indices given
Measure(evts, indices) ==
    \E event \in evts, mrIndex \in indices :
        AppendEvent(event, measuredHashes, mrIndex)

\* the events of the replayed logs: registers, not contents, are what varies
ReplayEvents == {event \in Events : event.EventType = FakeEvent1}

NextReplay ==
    \/ Measure(ReplayEvents, {0, 1, 256})
    \/ \E hash \in HashAlgos, mrSelection \in Selections : ReadMRs(hash, mrSelection)
    \/ \E hash \in HashAlgos, idx \in {1, 2} :
           \E digest \in {Zeroes(HashSize(hash)), Sum(hash, <<>>)} :
               AddMR(hash, idx, digest)
    \/ Replay

SpecReplay == InitPCR /\ [][NextReplay]_vars

\* the algorithm lists of a log whose records do not all hold the same
\* algorithms, the last with an algorithm the root of trust has no bank of
MixedAlgoLists == {<<"SHA1", "SHA256">>, <<"SHA256">>, <<"SHA256", "SHA384">>}

\* the index selections of the banks such a log is replayed against
MixedSelections == {<<0>>, <<0, 1>>}

\* a log made by NewPCR is measured into the ROT with one list of algorithms
\* or another and replayed against banks read from the ROT before or after
NextAlgos ==
    \/ \E event \in ReplayEvents, bankAlgos \in MixedAlgoLists, mrIndex \in {0, 1} :
           AppendEvent(event, bankAlgos, mrIndex)
    \/ \E hash \in HashAlgos, mrSelection \in MixedSelections : ReadMRs(hash, mrSelection)
    \/ Replay

SpecAlgos == InitPCR /\ [][NextAlgos]_vars

\* a log made by NewPCR and a root of trust whose digests are slices
InitSlices ==
    /\ Type = PCRType
    /\ Recs = <<>>
    /\ fakeMRBanks = CreateFakeRotOfSlices
    /\ call = NoCall
    /\ hist = [ok |-> 0, failed |-> 0, algos |-> {}, indices |-> {}]
    /\ bank = NoBank
    /\ replayErr = NoReplay
    /\ tampered = << >>
    /\ buf = <<>>
    /\ decoded = NoDecode
    /\ written = NoneWritten
    /\ events = <<>>
    /\ registerCfg = TPMRegisterConfig
    /\ extracted = NoExtract

\* the digests ExtendMR is called with on the root of trust: one of the
\* size of the bank and one of no size
SliceDigests == {<<>>, Sum("SHA256", <<1>>)}

\* the log is measured into the ROT, banks are read from the ROT, the ROT
\* is extended and the log is replayed against the bank read last
NextSlices ==
    \/ \E event \in ReplayEvents, mrIndex \in {0, 1} :
           AppendEventToSlices(event, measuredHashes, mrIndex)
    \/ \E mrSelection \in MixedSelections : ReadMRsSlices("SHA256", mrSelection)
    \/ \E dgst \in SliceDigests : ExtendMRSlice(FakeMR(0, dgst, "SHA256"))
    \/ ReplaySlices

SpecSlices == InitSlices /\ [][NextSlices]_vars

\* a log made by NewPCR is measured into the ROT, tampered with and replayed
\* against banks read from the ROT
NextTamper ==
    \/ Measure(ReplayEvents, {0, 1})
    \/ \E hash \in HashAlgos, mrSelection \in Selections : ReadMRs(hash, mrSelection)
    \/ \E i \in 1..MaxRecs, hash \in HashAlgos :
           \E digest \in SomeDigests(hash) : TamperDigest(i, hash, digest)
    \/ Replay

SpecTamper == InitPCR /\ [][NextTamper]_vars

\* a log made by NewPCR or NewConfComputeMR is measured into the ROT and
\* encoded, records are encoded one by one, and the buffer is decoded
InitCodec == Init /\ Type \in {PCRType, CCMRType}

NextCodec ==
    \/ \E mrIndex \in {1, 256} :
           AppendEvent([EventType |-> FakeEvent2, EventContent |-> <<115>>],
                       measuredHashes, mrIndex)
    \/ EncodeCEL
    \/ \E r \in SomeRecords : EncodeCELR(r)
    \/ DecodeToCEL

SpecCodec == InitCodec /\ [][NextCodec]_vars

\* byte strings that are and that are not the bytes of a TLV: a marshalled
\* FakeTlv whole, cut to nothing, inside its header and after it, and
\* followed by one byte more
ByteStrings ==
    LET data == MarshalBinary(TLV(FakeEvent2, <<115>>))
    IN  {SubSeq(data, 1, n) : n \in {0, 4, 5, Len(data)}} \cup {data \o <<0>>}

\* a log is measured and encoded, the buffer is cut short byte by byte and
\* decoded, and byte strings are unmarshalled to TLVs and to FakeTlvs
NextBytes ==
    \/ AppendEvent([EventType |-> FakeEvent2, EventContent |-> <<115>>], <<"SHA256">>, 1)
    \/ EncodeCEL
    \/ Truncate
    \/ DecodeToCEL
    \/ \E data \in ByteStrings : CallUnmarshalBinary(data)
    \/ \E data \in ByteStrings, type \in {FakeEventType, PCRType} :
           CallParseToFakeTlv(TLV(type, data))

SpecBytes == InitCodec /\ [][NextBytes]_vars

\* the events of a TPM or a CC firmware log are replayed, and the extractors
\* are called on them with the log's register configuration
InitEvents ==
    /\ InitCEL
    /\ Type = PCRType
    /\ events = <<>>
    /\ registerCfg \in {TPMRegisterConfig, RTMRRegisterConfig}
    /\ extracted = NoExtract

\* the events of the boot applications: the boot manager's two actions, two
\* applications, the separators of the three registers, and an action that has
\* the digest of ExitBootServices and other data
EfiEvents(cfg) ==
    {Measured(cfg.EFIAppIdx, EFIAction, CallingEFIApplication),
     Measured(cfg.EFIAppIdx, EFIBootServicesApplication, <<1>>),
     Measured(cfg.EFIAppIdx, EFIBootServicesApplication, <<2>>),
     Measured(cfg.EFIAppIdx, Separator, <<0, 0, 0, 0>>),
     Measured(cfg.ExitBootServicesIdx, Separator, <<0, 0, 0, 0>>),
     Measured(cfg.ExitBootServicesIdx, EFIAction, ExitBootServicesInvocation),
     Event(cfg.ExitBootServicesIdx, EFIAction, <<9>>,
           Sum(EventHash, ExitBootServicesInvocation)),
     Measured(cfg.FirmwareDriverIdx, Separator, <<0, 0, 0, 0>>)}

\* the events of each register configuration
EventsOf(tpm, rtmr) == IF registerCfg = TPMRegisterConfig THEN tpm ELSE rtmr

TPMEfiEvents == EfiEvents(TPMRegisterConfig)
RTMREfiEvents == EfiEvents(RTMRRegisterConfig)

NextEfi ==
    \/ \E event \in EventsOf(TPMEfiEvents, RTMREfiEvents) : Observe(event, MaxEfiEvents)
    \/ CallEfiState
    \/ CallEfiDriverState

SpecEfi == InitEvents /\ [][NextEfi]_vars

\* the registers the extractors read with the register configuration cfg
ExtractedRegisters(cfg) ==
    {0, cfg.FirmwareDriverIdx, cfg.EFIAppIdx, cfg.ExitBootServicesIdx}

\* on each register: the two separators, a separator with other data, a
\* separator whose digest is not that of its data, and two actions with the
\* data of a separator; and the ExitBootServices action
SepEvents(cfg) ==
    UNION {{Measured(idx, Separator, <<0, 0, 0, 0>>),
            Measured(idx, Separator, <<255, 255, 255, 255>>),
            Measured(idx, Separator, <<1, 0, 0, 0>>),
            Event(idx, Separator, <<0, 0, 0, 0>>, Sum(EventHash, <<1>>)),
            Measured(idx, EFIAction, <<0, 0, 0, 0>>),
            Measured(idx, EFIAction, <<255, 255, 255, 255>>)} :
           idx \in ExtractedRegisters(cfg)}
        \cup {Measured(cfg.ExitBootServicesIdx, EFIAction, ExitBootServicesInvocation)}

TPMSepEvents == SepEvents(TPMRegisterConfig)
RTMRSepEvents == SepEvents(RTMRRegisterConfig)

NextSep ==
    \/ \E event \in EventsOf(TPMSepEvents, RTMRSepEvents) : Observe(event, MaxSepEvents)
    \/ CallPlatformState
    \/ CallEfiState
    \/ CallEfiDriverState

SpecSep == InitEvents /\ [][NextSep]_vars

\* the events of the drivers: on the driver register two boot services drivers
\* and a runtime services driver, a boot services driver whose digest is not
\* that of its data, a boot services driver whose data is shorter than the
\* header of an image load event, a runtime services driver whose device path
\* is shorter than its header says, and the two separators; and a boot services
\* driver on the EFI app register
DriverEvents(cfg) ==
    {Measured(cfg.FirmwareDriverIdx, EFIBootServicesDriver, ImageLoad(<<1>>)),
     Measured(cfg.FirmwareDriverIdx, EFIBootServicesDriver, ImageLoad(<<2, 2>>)),
     Measured(cfg.FirmwareDriverIdx, EFIRuntimeServicesDriver, ImageLoad(<<3>>)),
     Event(cfg.FirmwareDriverIdx, EFIBootServicesDriver, ImageLoad(<<4>>),
           Sum(EventHash, <<4>>)),
     Measured(cfg.FirmwareDriverIdx, EFIBootServicesDriver, <<1, 2, 3>>),
     Measured(cfg.FirmwareDriverIdx, EFIRuntimeServicesDriver,
              Zeroes(24) \o <<5, 0, 0, 0, 0, 0, 0, 0>> \o <<1>>),
     Measured(cfg.FirmwareDriverIdx, Separator, <<0, 0, 0, 0>>),
     Measured(cfg.FirmwareDriverIdx, Separator, <<255, 255, 255, 255>>),
     Measured(cfg.EFIAppIdx, EFIBootServicesDriver, ImageLoad(<<5>>))}

TPMDriverEvents == DriverEvents(TPMRegisterConfig)
RTMRDriverEvents == DriverEvents(RTMRRegisterConfig)

NextDrivers ==
    \/ \E event \in EventsOf(TPMDriverEvents, RTMRDriverEvents) :
           Observe(event, MaxDriverEvents)
    \/ CallEfiDriverState

SpecDrivers == InitEvents /\ [][NextDrivers]_vars

\* the events of the platform: on the platform register a version that is no
\* GCE version, the GCE version 2 and a version whose digest is not that of its
\* data, the GCE Non-Host info of AMD SEV-SNP and one whose digest is not that
\* of its data, and the two separators; and a version on the EFI app register
PlatformEvents(cfg) ==
    {Measured(0, SCRTMVersion, <<118, 49>>),
     Measured(0, SCRTMVersion, GceVirtualFirmwarePrefix \o <<50, 0, 0, 0>>),
     Event(0, SCRTMVersion, <<118, 50>>, Sum(EventHash, <<1>>)),
     Measured(0, NonhostInfo,
              GCENonHostInfoSignature \o <<GCEConfidentialTechnology_AMD_SEV_SNP>>
                  \o Zeroes(15)),
     Event(0, NonhostInfo, GCENonHostInfoSignature \o <<1>> \o Zeroes(15),
           Sum(EventHash, <<1>>)),
     Measured(0, Separator, <<0, 0, 0, 0>>),
     Measured(0, Separator, <<255, 255, 255, 255>>),
     Measured(cfg.EFIAppIdx, SCRTMVersion, <<118, 51>>)}

TPMPlatformEvents == PlatformEvents(TPMRegisterConfig)
RTMRPlatformEvents == PlatformEvents(RTMRRegisterConfig)

NextPlatform ==
    \/ \E event \in EventsOf(TPMPlatformEvents, RTMRPlatformEvents) :
           Observe(event, MaxPlatformEvents)
    \/ CallPlatformState

SpecPlatform == InitEvents /\ [][NextPlatform]_vars

\* the register of the GRUB commands: PCR 8 for GrubStateFromTPMLog, the
\* register 3 of a CC log for GrubStateFromRTMRLog
GrubCommandsIdx(cfg) == IF cfg.Name = "PCR" THEN 8 ELSE 3

\* a register the GRUB extractor reads nothing else from: PCR 9, the GRUB files,
\* of a TPM log, and a register of the firmware of a CC log
GrubOtherIdx(cfg) == IF cfg.Name = "PCR" THEN 9 ELSE cfg.EFIAppIdx

\* an EV_IPL event of a GRUB command: what GRUB measured is the command
\* without its prefix, here without the last count bytes of it as well
GrubCommand(cfg, prefix, suffix, count) ==
    Event(GrubCommandsIdx(cfg), Ipl, prefix \o suffix,
          Sum(EventHash, SubSeq(suffix, 1, Len(suffix) - count)))

\* the events of GRUB: three commands, of which two are kernel command lines,
\* null-terminated or not and measured with or without the null byte; a
\* command that is its prefix alone; an EV_IPL event without a prefix; an
\* EV_EVENT_TAG event and an event of another type on the register of the
\* commands; and an EV_IPL event of the other register
GrubEvents(cfg) ==
    {GrubCommand(cfg, validPrefixes[1], <<97, 0>>, 0),
     GrubCommand(cfg, newGrubKernelCmdlinePrefix, <<98, 0>>, 1),
     GrubCommand(cfg, oldGrubKernelCmdlinePrefix, <<99>>, 0),
     GrubCommand(cfg, validPrefixes[5], <<>>, 0),
     Measured(GrubCommandsIdx(cfg), Ipl, <<120, 0>>),
     Measured(GrubCommandsIdx(cfg), EventTag, <<1>>),
     Measured(GrubCommandsIdx(cfg), EFIAction, <<1>>),
     Measured(GrubOtherIdx(cfg), Ipl, <<102>>)}

TPMGrubEvents == GrubEvents(TPMRegisterConfig)
RTMRGrubEvents == GrubEvents(RTMRRegisterConfig)

\* the byte the tests put in the place of a null terminator
NonNullBytes == {255}

NextGrub ==
    \/ \E event \in EventsOf(TPMGrubEvents, RTMRGrubEvents) : Observe(event, MaxGrubEvents)
    \/ \E i \in 1..MaxGrubEvents, b \in NonNullBytes : ModifyNullTerminator(i, b)
    \/ registerCfg = TPMRegisterConfig /\ CallGrubStateFromTPMLog
    \/ registerCfg = RTMRRegisterConfig /\ CallGrubStateFromRTMRLog
    \/ CallLinuxKernelStateFromGRUB

SpecGrub == InitEvents /\ [][NextGrub]_vars

\* events of the types GRUB extraction tells apart, on the register of the
\* commands and on the other register: a command, a command whose digest is
\* not that of its suffix, an EV_IPL event of the other register, and on each
\* of the two registers an EV_EVENT_TAG event and an EV_EFI_ACTION event
GrubTypeEvents(cfg) ==
    {GrubCommand(cfg, validPrefixes[1], <<97, 0>>, 0),
     Event(GrubCommandsIdx(cfg), Ipl, validPrefixes[1] \o <<97>>, Sum(EventHash, <<98>>)),
     Measured(GrubOtherIdx(cfg), Ipl, <<102>>)}
    \cup {Measured(index, type, <<1>>) :
             index \in {GrubCommandsIdx(cfg), GrubOtherIdx(cfg)},
             type \in {EventTag, EFIAction}}

TPMGrubTypeEvents == GrubTypeEvents(TPMRegisterConfig)
RTMRGrubTypeEvents == GrubTypeEvents(RTMRRegisterConfig)

NextGrubTypes ==
    \/ \E event \in EventsOf(TPMGrubTypeEvents, RTMRGrubTypeEvents) :
           Observe(event, MaxGrubEvents)
    \/ registerCfg = TPMRegisterConfig /\ CallGrubStateFromTPMLog
    \/ registerCfg = RTMRRegisterConfig /\ CallGrubStateFromRTMRLog

SpecGrubTypes == InitEvents /\ [][NextGrubTypes]_vars

\* err := verifyNullTerminatedDataDigest(hasher, data, digest)
CallVerifyNullTerminatedDataDigest(data, digest) ==
    /\ call' = [op |-> "verifyNullTerminatedDataDigest",
                err |-> IF verifyNullTerminatedDataDigest(EventHash, data, digest)
                        THEN "nil" ELSE "invalid digest",
                calls |-> 0, data |-> data, digest |-> digest]
    /\ UNCHANGED <<Type, Recs, fakeMRBanks, hist, bank, replayErr, tampered, buf, decoded,
                   written, events, registerCfg, extracted>>

\* at most MaxDigestEvents events are observed before the digests of GRUB
\* commands are verified
MaxDigestEvents == 2

\* what GRUB measures and what follows the prefix of a command: nothing, a
\* byte, the byte and a null byte, and a null byte alone
GrubSuffixes == {<<>>, <<97>>, <<97, 0>>, <<0>>}

\* what the digest of a command is the hash of: the suffixes that hold the
\* byte or nothing
GrubMeasured == {<<>>, <<97>>, <<97, 0>>}

\* what verifyNullTerminatedDataDigest is given the hash of
DataMeasured == {<<>>, <<97>>}

\* a GRUB command with each suffix and each digest
GrubDigestEvents(cfg) ==
    {Event(GrubCommandsIdx(cfg), Ipl, validPrefixes[1] \o suffix, Sum(EventHash, measured)) :
        suffix \in GrubSuffixes, measured \in GrubMeasured}

TPMGrubDigestEvents == GrubDigestEvents(TPMRegisterConfig)
RTMRGrubDigestEvents == GrubDigestEvents(RTMRRegisterConfig)

NextDigest ==
    \/ \E event \in EventsOf(TPMGrubDigestEvents, RTMRGrubDigestEvents) :
           Observe(event, MaxDigestEvents)
    \/ registerCfg = TPMRegisterConfig /\ CallGrubStateFromTPMLog
    \/ registerCfg = RTMRRegisterConfig /\ CallGrubStateFromRTMRLog
    \/ \E data \in GrubSuffixes, measured \in DataMeasured :
           CallVerifyNullTerminatedDataDigest(data, Sum(EventHash, measured))

SpecDigest == InitEvents /\ [][NextDigest]_vars

\* the events of a boot: a version of the firmware whose digest is not
\* verified, the SecureBoot variable set and empty, the ExitBootServices
\* action, an application, a kernel command line of GRUB and an EV_IPL event
\* without a prefix
FirmwareEvents(cfg) ==
    {Event(0, SCRTMVersion, <<1>>, Sum(EventHash, <<2>>)),
     Measured(cfg.SecureBootIdx, EFIVariableDriverConfig, UEFIVariableData("SecureBoot", <<1>>)),
     Measured(cfg.SecureBootIdx, EFIVariableDriverConfig, UEFIVariableData("SecureBoot", <<>>)),
     Measured(cfg.ExitBootServicesIdx, EFIAction, ExitBootServicesInvocation),
     Measured(cfg.EFIAppIdx, EFIBootServicesApplication, <<1>>),
     GrubCommand(cfg, newGrubKernelCmdlinePrefix, <<97, 0>>, 0),
     Measured(GrubCommandsIdx(cfg), Ipl, <<120, 0>>)}

TPMFirmwareEvents == FirmwareEvents(TPMRegisterConfig)
RTMRFirmwareEvents == FirmwareEvents(RTMRRegisterConfig)

\* the hashes FirmwareLogState is called with: that of the events and one
\* that tpm2.HashToAlgorithm does not know, for which the options are not read
FirmwareHashes == {EventHash, "MD4"}

NextFirmware ==
    \/ \E event \in EventsOf(TPMFirmwareEvents, RTMRFirmwareEvents) :
           Observe(event, MaxFirmwareEvents)
    \/ \E loader \in {UnsupportedLoader, GRUB}, allowEmptySBVar \in BOOLEAN :
           CallFirmwareLogState(EventHash, Opts(loader, allowEmptySBVar))
    \/ \E hash \in FirmwareHashes \ {EventHash} :
           CallFirmwareLogState(hash, Opts(GRUB, FALSE))

SpecFirmware == InitEvents /\ [][NextFirmware]_vars

----------------------------------------------------------------------------
(* Replay: claims C1 to C5. *)

ReplayedNil == [err |-> "nil", regs |-> {}]

\* the indices of the registers of the bank
BankIndices == {bank.FakeMRs[i].Index : i \in DOMAIN bank.FakeMRs}

\* the register indices of the records of the log
LogIndices == {Recs[i].Index : i \in DOMAIN Recs}

\* the bank is what ReadMRs returns now for its algorithm and its indices
BankReadFromROT ==
    LET r == ReadMRsResult(fakeMRBanks, bank.Hash,
                           [i \in DOMAIN bank.FakeMRs |-> bank.FakeMRs[i].Index])
    IN  r.err = "nil" /\ r.bank = bank

\* C1: after successful AppendEvent calls alone, all with the same algorithm
\* list, on an empty log and a fresh ROT, Replay against a bank read from the
\* ROT for one of these algorithms and a selection holding every index that
\* was appended to returns no error.
C1_MeasuredLogReplays ==
    ( /\ replayErr.err # "none"
      /\ hist.failed = 0
      /\ Cardinality(hist.algos) <= 1
      /\ DOMAIN tampered = {}
      /\ \A l \in hist.algos : bank.Hash \in Range(l)
      /\ BankReadFromROT
      /\ hist.indices \subseteq BankIndices )
    => replayErr.err = "nil"

\* the records whose digest of the bank's algorithm is not the one appended
Overwritten ==
    {i \in DOMAIN tampered : Recs[i].Digests[bank.Hash] # tampered[i][bank.Hash]}

\* C2: when the log as appended replays against the bank and the digest of
\* the bank's algorithm of one record was overwritten by another value of
\* the same length, Replay returns a mismatch that lists the register of
\* that record.
C2_TamperedDigestMismatch ==
    ( /\ replayErr.err # "none"
      /\ bank.Hash \in HashAlgos
      /\ ReplayedNil \in ReplayResults(Untampered, bank)
      /\ Cardinality(Overwritten) = 1 )
    => /\ replayErr.err = "mismatch"
       /\ \A i \in Overwritten : Recs[i].Index \in replayErr.regs

C2_Witness ==
    /\ replayErr.err = "mismatch"
    /\ bank.Hash \in HashAlgos
    /\ ReplayedNil \in ReplayResults(Untampered, bank)
    /\ Cardinality(Overwritten) = 1
    /\ Len(Recs) = 2 /\ Recs[1].Index = Recs[2].Index

\* C3: when every record has a digest of the bank's algorithm and some record's
\* register is not in the bank, Replay returns the missing-register error,
\* naming a register the bank lacks, whatever the other registers hold.
C3_MissingRegister ==
    ( /\ replayErr.err # "none"
      /\ bank.Hash \in HashAlgos
      /\ \A i \in DOMAIN Recs : bank.Hash \in DOMAIN Recs[i].Digests
      /\ ~(LogIndices \subseteq BankIndices) )
    => /\ replayErr.err = "missing"
       /\ replayErr.regs # {}
       /\ replayErr.regs \subseteq LogIndices \ BankIndices

C3_Witness ==
    /\ replayErr.err = "missing"
    /\ \E i, j \in DOMAIN Recs :
          /\ Recs[i].Index \notin BankIndices
          /\ Recs[j].Index \in BankIndices
          /\ \E k \in DOMAIN bank.FakeMRs :
                /\ bank.FakeMRs[k].Index = Recs[j].Index
                /\ bank.FakeMRs[k].Digest = Zeroes(HashSize(bank.Hash))

\* C4: when Replay succeeds against the bank, it succeeds against the bank
\* with one more register of any digest at an index no record uses.
C4_SupersetBank ==
    (replayErr.err = "nil" /\ bank.Hash \in HashAlgos)
    => \A idx \in (0..3) \ LogIndices :
          \A digest \in SomeDigests(bank.Hash) \cup {<<>>} :
             ReplayResults(Recs, FakeMRBank(bank.Hash,
                 Append(bank.FakeMRs, FakeMR(idx, digest, bank.Hash)))) = {ReplayedNil}

C4_Witness ==
    /\ replayErr.err = "nil"
    /\ Recs # <<>>
    /\ \E k \in DOMAIN bank.FakeMRs :
          /\ bank.FakeMRs[k].Index \notin LogIndices
          /\ bank.FakeMRs[k].Digest # Zeroes(HashSize(bank.Hash))

\* C5: Replay of a log without records returns no error, whatever the bank.
C5_EmptyLogReplays ==
    (Recs = <<>> /\ replayErr.err # "none") => replayErr.err = "nil"

C5_Witness ==
    /\ Recs = <<>>
    /\ replayErr.err = "nil"
    /\ \E k \in DOMAIN bank.FakeMRs :
          bank.FakeMRs[k].Digest # Zeroes(HashSize(bank.Hash))

----------------------------------------------------------------------------
(* Encoding and decoding: claims C6 to C8. *)

\* the buffer decoded last held what one EncodeCEL call wrote, and no more
DecodedCEL == decoded.err # "none" /\ decoded.from.cel

\* the buffer decoded last held the encodings of records, and no more
DecodedRecords == decoded.err # "none" /\ decoded.from.recs # <<>>

\* the index types of the records that were encoded
WrittenTypes == {decoded.from.recs[i].IndexType : i \in DOMAIN decoded.from.recs}

\* C6: DecodeToCEL of what EncodeCEL wrote for a log built by AppendEvent
\* returns no error and the records of the log in their order, each with its
\* RecNum, Index, IndexType, digests and Content.
C6_RoundTrip ==
    DecodedCEL => /\ decoded.err = "nil"
                  /\ decoded.Recs = decoded.from.recs

C6_Witness ==
    /\ DecodedCEL
    /\ decoded.err = "nil"
    /\ Len(decoded.Recs) = 2
    /\ decoded.Recs[1].Index # decoded.Recs[2].Index
    /\ decoded.Recs = Recs

\* C7: DecodeToCEL of what EncodeCEL wrote for a log of type PCR or CCMR with
\* one record or more returns a log of the same type, which is the index
\* type of the records.
C7_TypeRoundTrip ==
    ( /\ DecodedCEL
      /\ decoded.from.Type \in {PCRType, CCMRType}
      /\ Len(decoded.from.recs) >= 1 )
    => /\ decoded.Type = decoded.from.Type
       /\ WrittenTypes = {decoded.from.Type}

\* C8: DecodeToCEL returns an error and an empty log for the encoding of two
\* records or more that are not all of one index type, and for the encoding
\* of records one of which has an index type other than PCR and CCMR.
C8_BadTypesFail ==
    ( /\ DecodedRecords
      /\ \/ Len(decoded.from.recs) >= 2 /\ Cardinality(WrittenTypes) > 1
         \/ ~(WrittenTypes \subseteq {PCRType, CCMRType}) )
    => /\ decoded.err # "nil"
       /\ decoded.Recs = <<>>
       /\ decoded.Type = 0

C8_Witness ==
    /\ DecodedRecords
    /\ WrittenTypes = {PCRType, CCMRType}
    /\ decoded.err = "differing"
    /\ decoded.Recs = <<>>

----------------------------------------------------------------------------
(* AppendEvent: claims C9 and C10. *)

\* C9: whatever AppendEvent calls were made on a log that was empty, the
\* record at position i (from 0) has RecNum i and the index type of the log,
\* and the log has as many records as calls returned no error.
C9_RecNums ==
    /\ \A i \in DOMAIN Recs : Recs[i].RecNum = i - 1 /\ Recs[i].IndexType = Type
    /\ Len(Recs) = hist.ok

C9_Witness ==
    /\ Len(Recs) = 2
    /\ hist.ok = 2
    /\ hist.failed = 1
    /\ call.err = "nil"

\* C10: an AppendEvent call on a log of a type other than PCR and CCMR, or
\* with no algorithm, or with a negative index, returns an error, calls the
\* extender not once and leaves the records as they were.
C10_RejectedAppend ==
    ( /\ call.op = "AppendEvent"
      /\ \/ Type \notin {PCRType, CCMRType}
         \/ call.empty
         \/ call.negative )
    => /\ call.err # "nil"
       /\ call.calls = 0
       /\ Len(Recs) = call.before

C10_Witness ==
    /\ call.op = "AppendEvent"
    /\ Type \notin {PCRType, CCMRType}
    /\ ~call.empty /\ ~call.negative
    /\ call.err = "mrtype"
    /\ call.calls = 0
    /\ Recs = <<>>

----------------------------------------------------------------------------
(* EfiState, EfiDriverState and PlatformState: claims C11 to C20. *)

\* the last call was EfiState on the events
EfiExtracted == extracted.op = "EfiState"

\* the digests of the two actions of the boot manager
CallingDigest == Sum(EventHash, CallingEFIApplication)
ExitDigest == Sum(EventHash, ExitBootServicesInvocation)

\* event i is on the register idx
On(i, idx) == i \in DOMAIN events /\ events[i].Index = idx

\* event i is a verified ExitBootServices action on its register
IsExitAction(i) ==
    /\ On(i, registerCfg.ExitBootServicesIdx)
    /\ events[i].Type = EFIAction
    /\ events[i].Digest = ExitDigest
    /\ events[i].DigestVerified

\* event i is an application on the EFI app register
IsApp(i) == On(i, registerCfg.EFIAppIdx) /\ events[i].Type = EFIBootServicesApplication

\* C11: EfiState returns a state only if the events hold a digest-verified
\* EV_EFI_ACTION event with the digest of "Exit Boot Services Invocation" on the
\* ExitBootServices register; without such an event it returns a nil state, with
\* a nil error when nothing else is wrong, and never a state with an error.
C11_StateOnlyAfterExitBootServices ==
    EfiExtracted =>
        /\ extracted.state # << >> => \E i \in DOMAIN events : IsExitAction(i)
        /\ (~\E i \in DOMAIN events : IsExitAction(i)) => extracted.state = << >>
        /\ extracted.err # "nil" => extracted.state = << >>

\* applications were called and measured, ExitBootServices was not, and
\* EfiState returned neither a state nor an error
C11_Witness ==
    /\ EfiExtracted
    /\ \E i \in DOMAIN events : IsApp(i)
    /\ ~\E i \in DOMAIN events : IsExitAction(i)
    /\ extracted.err = "nil"
    /\ extracted.state = << >>

\* the last call was PlatformState, or EfiDriverState, on the events
PlatformExtracted == extracted.op = "PlatformState"
DriverExtracted == extracted.op = "EfiDriverState"

\* the digests of the two separators
SeparatorDigest0 == Sum(EventHash, <<0, 0, 0, 0>>)
SeparatorDigestF == Sum(EventHash, <<255, 255, 255, 255>>)

\* event i is an EV_SEPARATOR event with the data of a separator and the digest
\* of its data
IsValidSeparator(i) ==
    /\ events[i].Type = Separator
    /\ events[i].Data \in {<<0, 0, 0, 0>>, <<255, 255, 255, 255>>}
    /\ events[i].DigestVerified

\* event i has the digest of a separator and another type
IsSpoofedSeparator(i) ==
    /\ events[i].Type # Separator
    /\ events[i].Digest \in {SeparatorDigest0, SeparatorDigestF}

\* PlatformState processes event i: it is on the platform register and no
\* separator of that register comes before it
PlatformProcesses(i) ==
    /\ On(i, 0)
    /\ ~\E j \in 1..(i - 1) : On(j, 0) /\ IsValidSeparator(j)

\* EfiState processes event i: it is on one of its two registers and no
\* ExitBootServices action comes before it
EfiProcesses(i) ==
    /\ On(i, registerCfg.EFIAppIdx) \/ On(i, registerCfg.ExitBootServicesIdx)
    /\ ~\E j \in 1..(i - 1) : IsExitAction(j)

\* C12: an event that PlatformState or EfiState processes, whose digest is that
\* of 00000000 or of FFFFFFFF and whose type is not EV_SEPARATOR, makes the
\* extractor return an error; and the separator digests the extractor computed
\* are those of 00000000 and of FFFFFFFF.
C12_SpoofedSeparatorRejected ==
    /\ PlatformExtracted \/ EfiExtracted =>
           getSeparatorInfo(EventHash).separatorDigests = <<SeparatorDigest0, SeparatorDigestF>>
    /\ PlatformExtracted =>
           \A i \in DOMAIN events :
               PlatformProcesses(i) /\ IsSpoofedSeparator(i) => extracted.err # "nil"
    /\ EfiExtracted =>
           \A i \in DOMAIN events :
               EfiProcesses(i) /\ IsSpoofedSeparator(i) => extracted.err # "nil"

\* the registers the last extractor called reads
RegistersOf(op) ==
    CASE op = "PlatformState" -> {0}
      [] op = "EfiDriverState" -> {registerCfg.FirmwareDriverIdx}
      [] op = "EfiState" -> {registerCfg.EFIAppIdx, registerCfg.ExitBootServicesIdx}
      [] OTHER -> {}

\* event i is the only event on the registers of the last extractor called
OnlyEventOf(i, op) ==
    /\ i \in DOMAIN events
    /\ \A j \in DOMAIN events : events[j].Index \in RegistersOf(op) <=> j = i

\* C13: an EV_SEPARATOR event is accepted exactly when its data is 00000000 or
\* FFFFFFFF and its digest is that of its data, on the platform, EFI app,
\* ExitBootServices and driver registers alike: the extractor of a register
\* whose only event is an EV_SEPARATOR event fails exactly when the event has
\* other data or another digest.
C13_SeparatorRule ==
    \A i \in DOMAIN events :
        OnlyEventOf(i, extracted.op) /\ events[i].Type = Separator =>
            (extracted.err = "nil" <=> IsValidSeparator(i))

\* event i is a CallingEFIApp event on the EFI app register
IsCalling(i) ==
    /\ On(i, registerCfg.EFIAppIdx)
    /\ events[i].Type = EFIAction
    /\ events[i].Digest = CallingDigest

\* EfiState returned an error and no state
EfiFailed == extracted.err # "nil" /\ extracted.state = << >>

\* C14 as stated: an EV_EFI_BOOT_SERVICES_APPLICATION event on the EFI app
\* register that no CallingEFIApp event of that register precedes makes EfiState
\* return an error and no state.
C14_AppBeforeCalling ==
    EfiExtracted =>
        \A i \in DOMAIN events :
            IsApp(i) /\ (~\E j \in 1..(i - 1) : IsCalling(j)) => EfiFailed

\* C14: an EV_EFI_BOOT_SERVICES_APPLICATION event on the EFI app register that
\* neither a CallingEFIApp event of that register nor a verified
\* ExitBootServices action of the ExitBootServices register precedes makes
\* EfiState return an error and no state.
C14_AppBeforeCallingAndExit ==
    EfiExtracted =>
        \A i \in DOMAIN events :
            /\ IsApp(i)
            /\ ~\E j \in 1..(i - 1) : IsCalling(j)
            /\ ~\E j \in 1..(i - 1) : IsExitAction(j)
            => EfiFailed

\* an application was measured first, the boot manager's two actions after
\* it, and EfiState failed
C14_Witness ==
    /\ EfiExtracted
    /\ IsApp(1)
    /\ \E j \in DOMAIN events : IsCalling(j)
    /\ \E j \in DOMAIN events : IsExitAction(j)
    /\ EfiFailed

\* EfiState returned a state
EfiReturned == EfiExtracted /\ extracted.err = "nil" /\ extracted.state # << >>

\* the digests of the events i..Len(events) that are in kept and are
\* applications on the EFI app register, in stream order
RECURSIVE AppDigests(_, _)
AppDigests(i, kept) ==
    IF i > Len(events) THEN <<>>
    ELSE (IF IsApp(i) /\ i \in kept THEN <<events[i].Digest>> ELSE <<>>)
             \o AppDigests(i + 1, kept)

\* event i comes after a CallingEFIApp event and before any separator of the
\* EFI app register
AfterCallingBeforeSeparator(i) ==
    /\ \E j \in 1..(i - 1) : IsCalling(j)
    /\ ~\E j \in 1..(i - 1) : On(j, registerCfg.EFIAppIdx) /\ IsValidSeparator(j)

\* event i comes after a CallingEFIApp event and before any ExitBootServices
\* action
AfterCallingBeforeExit(i) ==
    /\ \E j \in 1..(i - 1) : IsCalling(j)
    /\ ~\E j \in 1..(i - 1) : IsExitAction(j)

\* C15 as stated: the Apps of the state EfiState returns are the digests, in
\* stream order, of the EV_EFI_BOOT_SERVICES_APPLICATION events of the EFI app
\* register that come after CallingEFIApp and before the register's separator.
C15_AppsUntilSeparator ==
    EfiReturned =>
        extracted.state[1].Apps = AppDigests(1, {i \in DOMAIN events : AfterCallingBeforeSeparator(i)})

\* C15: the Apps of the state EfiState returns are the digests, in stream
\* order, of the EV_EFI_BOOT_SERVICES_APPLICATION events of the EFI app register
\* that come after CallingEFIApp and before the ExitBootServices action, those
\* that follow the register's separator included.
C15_AppsUntilExit ==
    EfiReturned =>
        extracted.state[1].Apps = AppDigests(1, {i \in DOMAIN events : AfterCallingBeforeExit(i)})

\* EfiState returned an application that was measured after the separator
\* of the register
C15_Witness ==
    /\ EfiReturned
    /\ extracted.state[1].Apps # <<>>
    /\ \E i \in DOMAIN events :
           /\ IsApp(i)
           /\ events[i].Digest = extracted.state[1].Apps[Len(extracted.state[1].Apps)]
           /\ \E j \in 1..(i - 1) : On(j, registerCfg.EFIAppIdx) /\ IsValidSeparator(j)

\* event i is the first verified ExitBootServices action of the events
IsFirstExitAction(i) == IsExitAction(i) /\ ~\E j \in 1..(i - 1) : IsExitAction(j)

\* the valid separators of the register idx before event i
SeparatorsBefore(i, idx) == {j \in 1..(i - 1) : On(j, idx) /\ IsValidSeparator(j)}

\* C16: EfiState returns a state only when exactly one valid separator of the
\* ExitBootServices register precedes the ExitBootServices action; events with
\* the action and no separator on that register yield no state.
C16_SeparatorBeforeExit ==
    EfiExtracted /\ extracted.state # << >> =>
        \E i \in DOMAIN events :
            /\ IsFirstExitAction(i)
            /\ Cardinality(SeparatorsBefore(i, registerCfg.ExitBootServicesIdx)) = 1

\* event i is a valid separator of the register idx that follows another one
\* and that no ExitBootServices action precedes
IsSecondSeparatorBeforeExit(i, idx) ==
    /\ On(i, idx)
    /\ IsValidSeparator(i)
    /\ SeparatorsBefore(i, idx) # {}
    /\ ~\E j \in 1..(i - 1) : IsExitAction(j)

\* event i is a valid separator of the driver register that follows another
DriverSeparatorRepeated ==
    \E i \in DOMAIN events :
        /\ On(i, registerCfg.FirmwareDriverIdx)
        /\ IsValidSeparator(i)
        /\ SeparatorsBefore(i, registerCfg.FirmwareDriverIdx) # {}

\* a second valid separator is on the EFI app or the ExitBootServices register
\* before the ExitBootServices action
AppSeparatorRepeated ==
    \E i \in DOMAIN events :
        \/ IsSecondSeparatorBeforeExit(i, registerCfg.EFIAppIdx)
        \/ IsSecondSeparatorBeforeExit(i, registerCfg.ExitBootServicesIdx)

\* C17 as stated: a second valid separator on the EFI app register or on the
\* ExitBootServices register before the ExitBootServices action, or anywhere on
\* the driver register, makes EfiState return an error and no state.
C17_SecondSeparator ==
    EfiExtracted /\ (AppSeparatorRepeated \/ DriverSeparatorRepeated) => EfiFailed

\* C17: a second valid separator on the EFI app register or on the
\* ExitBootServices register before the ExitBootServices action, or anywhere on
\* the driver register of events that hold a verified ExitBootServices action,
\* makes EfiState return an error and no state.
C17_SecondSeparatorObserved ==
    EfiExtracted =>
        /\ AppSeparatorRepeated => EfiFailed
        /\ DriverSeparatorRepeated /\ (\E i \in DOMAIN events : IsExitAction(i)) => EfiFailed

\* the driver register has two separators, the loop of EfiState ended at the
\* ExitBootServices action, and EfiState failed for the second separator
C17_Witness ==
    /\ EfiExtracted
    /\ DriverSeparatorRepeated
    /\ ~AppSeparatorRepeated
    /\ \E i \in DOMAIN events : IsExitAction(i)
    /\ extracted.err = "duplicate separator"
    /\ extracted.state = << >>

\* the verified ExitBootServices actions of the events
ExitActions == {i \in DOMAIN events : IsExitAction(i)}

\* the events from event i on, without the ExitBootServices actions that
\* follow the first
RECURSIVE UpToFirstExit(_)
UpToFirstExit(i) ==
    IF i > Len(events) THEN <<>>
    ELSE (IF IsExitAction(i) /\ ~IsFirstExitAction(i) THEN <<>> ELSE <<events[i]>>)
             \o UpToFirstExit(i + 1)

\* C18 as stated: events with two ExitBootServices actions on the
\* ExitBootServices register make EfiState return an error.
C18_SecondExitRejected ==
    EfiExtracted /\ Cardinality(ExitActions) >= 2 => extracted.err # "nil"

\* C18: events with two ExitBootServices actions on the ExitBootServices
\* register are not rejected for the second: EfiState stops reading its two
\* registers at the first, and returns what it returns for the events
\* without the later actions.
C18_SecondExitIgnored ==
    EfiExtracted /\ Cardinality(ExitActions) >= 2 =>
        [err |-> extracted.err, state |-> extracted.state]
            = EfiState(EventHash, UpToFirstExit(1), registerCfg)

\* EfiState returned a state for events with two ExitBootServices actions
C18_Witness ==
    /\ EfiReturned
    /\ Cardinality(ExitActions) >= 2

\* event i is a driver of the type given on the driver register
IsDriver(i, type) == On(i, registerCfg.FirmwareDriverIdx) /\ events[i].Type = type

\* event i comes before any valid separator of the driver register
BeforeDriverSeparator(i) == SeparatorsBefore(i, registerCfg.FirmwareDriverIdx) = {}

\* the digests of the events i..Len(events) that are drivers of the type
\* given and come before the separator of the driver register, in stream order
RECURSIVE DriverDigests(_, _)
DriverDigests(i, type) ==
    IF i > Len(events) THEN <<>>
    ELSE (IF IsDriver(i, type) /\ BeforeDriverSeparator(i) THEN <<events[i].Digest>>
          ELSE <<>>)
             \o DriverDigests(i + 1, type)

\* a driver that comes before the separator of the driver register has a
\* payload that is no image load event
UnparsableDriver ==
    \E i \in DOMAIN events :
        /\ IsDriver(i, EFIBootServicesDriver) \/ IsDriver(i, EFIRuntimeServicesDriver)
        /\ BeforeDriverSeparator(i)
        /\ ~ParseEFIImageLoad(events[i].Data)

\* C19: the two lists EfiDriverState returns are the digests, in stream order,
\* of the EV_EFI_BOOT_SERVICES_DRIVER and of the EV_EFI_RUNTIME_SERVICES_DRIVER
\* events of the driver register that come before the register's separator,
\* drivers after the separator left out; all of them parse as image load
\* events, because one that does not makes EfiDriverState fail.
C19_DriversUntilSeparator ==
    DriverExtracted =>
        /\ UnparsableDriver => extracted.err # "nil" /\ extracted.state = << >>
        /\ extracted.err = "nil" =>
               /\ extracted.state # << >>
               /\ extracted.state[1].BootServicesDrivers
                      = DriverDigests(1, EFIBootServicesDriver)
               /\ extracted.state[1].RuntimeServicesDrivers
                      = DriverDigests(1, EFIRuntimeServicesDriver)

\* EfiDriverState returned a boot services driver, and left out a driver that
\* was measured after the separator
C19_Witness ==
    /\ DriverExtracted
    /\ extracted.err = "nil"
    /\ extracted.state[1].BootServicesDrivers # <<>>
    /\ \E i \in DOMAIN events :
           IsDriver(i, EFIBootServicesDriver) /\ ~BeforeDriverSeparator(i)

\* event i is an event of the type given on the platform register that comes
\* before any valid separator of that register
IsPlatformEvent(i, type) ==
    On(i, 0) /\ events[i].Type = type /\ SeparatorsBefore(i, 0) = {}

\* the payload of the last event of the type given that PlatformState reads,
\* and no bytes when there is none
LastPayload(type) ==
    IF \E i \in DOMAIN events : IsPlatformEvent(i, type)
    THEN events[CHOOSE i \in DOMAIN events :
                    /\ IsPlatformEvent(i, type)
                    /\ \A j \in DOMAIN events : IsPlatformEvent(j, type) => j <= i].Data
    ELSE <<>>

\* the events up to the first valid separator of the platform register
UpToPlatformSeparator ==
    IF \E i \in DOMAIN events : On(i, 0) /\ IsValidSeparator(i)
    THEN SubSeq(events, 1,
                CHOOSE i \in DOMAIN events :
                    On(i, 0) /\ IsValidSeparator(i) /\ SeparatorsBefore(i, 0) = {})
    ELSE events

\* C20: PlatformState captures the payloads of EV_S_CRTM_VERSION and
\* EV_NONHOST_INFO events of the platform register that come before the first
\* valid separator of that register, and no others; the events after that
\* separator change neither the state nor the error it returns; and such an
\* event before the separator whose digest is not verified makes it fail.
C20_PlatformUntilSeparator ==
    PlatformExtracted =>
        /\ extracted.err = "nil" =>
               [err |-> extracted.err, state |-> extracted.state]
                   = PlatformResult([err |-> "nil",
                                     st |-> [versionString |-> LastPayload(SCRTMVersion),
                                             nonHostInfo |-> LastPayload(NonhostInfo)]])
        /\ [err |-> extracted.err, state |-> extracted.state]
               = PlatformState(EventHash, UpToPlatformSeparator)
        /\ (\E i \in DOMAIN events :
                /\ IsPlatformEvent(i, SCRTMVersion) \/ IsPlatformEvent(i, NonhostInfo)
                /\ ~events[i].DigestVerified)
               => extracted.err # "nil" /\ extracted.state = << >>

\* PlatformState returned the GCE version measured before the separator,
\* and the version measured after the separator, whose digest is not verified,
\* caused no error
C20_Witness ==
    /\ PlatformExtracted
    /\ extracted.err = "nil"
    /\ extracted.state[1].Firmware = [GceVersion |-> Uint32(2)]
    /\ \E i \in DOMAIN events :
           /\ On(i, 0)
           /\ events[i].Type = SCRTMVersion
           /\ ~events[i].DigestVerified
           /\ SeparatorsBefore(i, 0) # {}

----------------------------------------------------------------------------
(* FirmwareLogState, the GRUB extractors and the kernel state: claims C21 to
   C25. *)

\* FirmwareLogState was the last call on the events, with a hash that
\* tpm2.HashToAlgorithm knows
FirmwareExtracted == extracted.op = "FirmwareLogState" /\ extracted.hash \in HashAlgos

\* the extractors that the last call of FirmwareLogState invoked
Invoked ==
    {"Platform", "SecureBoot", "Efi"}
        \cup (IF extracted.opts.Loader = GRUB THEN {"Grub", "LinuxKernel"} ELSE {})

\* what the GRUB extractor of the register configuration returns when it is
\* called on the events by itself
GrubAlone ==
    IF registerCfg.Name = "PCR" THEN GrubStateFromTPMLog(extracted.hash, events)
    ELSE GrubStateFromRTMRLog(extracted.hash, events)

\* what each extractor returns when it is called on the events by itself, with
\* the hash and the options of the last call of FirmwareLogState
Alone(name) ==
    CASE name = "Platform" -> PlatformState(extracted.hash, events)
      [] name = "SecureBoot" -> SecureBootState(events, registerCfg, extracted.opts)
      [] name = "Efi" -> EfiState(extracted.hash, events, registerCfg)
      [] name = "Grub" -> GrubAlone
      [] name = "LinuxKernel" -> LinuxKernelStateFromGRUB(GrubAlone.state)

\* the field of the returned state that belongs to an extractor
FieldOf(name) ==
    CASE name = "Platform" -> extracted.state[1].Platform
      [] name = "SecureBoot" -> extracted.state[1].SecureBoot
      [] name = "Efi" -> extracted.state[1].Efi
      [] name = "Grub" -> extracted.state[1].Grub
      [] name = "LinuxKernel" -> extracted.state[1].LinuxKernel

\* the extractors in the order FirmwareLogState calls them
ExtractorOrder == <<"Platform", "SecureBoot", "Efi", "Grub", "LinuxKernel">>

\* the errors of the invoked extractors that fail by themselves, in the order
\* of the calls
ErrorsAlone ==
    LET failing == SelectSeq(ExtractorOrder,
                             LAMBDA name : name \in Invoked /\ Alone(name).err # "nil")
    IN  [k \in DOMAIN failing |-> Alone(failing[k]).err]

\* the parts of C21 that do not depend on what a field of an extractor that
\* did not fail holds: the state is not nil and has the log type of the
\* register configuration, every invoked extractor ran, the field of a failed
\* one is nil, and the error is nil exactly when none failed
FirmwareTolerant ==
    /\ Len(extracted.state) = 1
    /\ extracted.state[1].LogType = registerCfg.LogType
    /\ extracted.joined = ErrorsAlone
    /\ \A name \in Invoked : Alone(name).err # "nil" => FieldOf(name) = << >>
    /\ extracted.err # "nil" <=> \E name \in Invoked : Alone(name).err # "nil"

GrubExtracted == extracted.op \in {"GrubStateFromTPMLog", "GrubStateFromRTMRLog"}

\* the GRUB extractor of the register configuration
GrubState(evts) ==
    IF registerCfg.Name = "PCR" THEN GrubStateFromTPMLog(EventHash, evts)
    ELSE GrubStateFromRTMRLog(EventHash, evts)

\* event e is an EV_IPL event of the register of the GRUB commands
IsGrubIpl(e) == e.Index = GrubCommandsIdx(registerCfg) /\ e.Type = Ipl

\* the data of event e begin with a recognized prefix
HasValidPrefix(e) == \E k \in DOMAIN validPrefixes : HasPrefix(e.Data, validPrefixes[k])

\* the data of event e after its prefix
SuffixOf(e) == SliceFrom(e.Data, PrefixLen(validPrefixes, e.Data))

\* event e is a GRUB command with a suffix that is not empty
IsGrubCommand(e) == IsGrubIpl(e) /\ HasValidPrefix(e) /\ Len(SuffixOf(e)) > 0

\* the step changed the last byte of the data of event i, and nothing else,
\* from zero to another value
NullTerminatorModified(i) ==
    /\ Len(events[i].Data) > 0
    /\ events[i].Data[Len(events[i].Data)] = 0
    /\ \E b \in 1..255 :
           events' = [events EXCEPT ![i].Data[Len(events[i].Data)] = b]

\* C22: when GRUB extraction succeeds on the events and the null byte that ends
\* a GRUB command with a non-empty suffix is changed to another value, the
\* digest being left as it was, GRUB extraction fails on the changed events,
\* with GrubStateFromTPMLog on a TPM log and GrubStateFromRTMRLog on a CC log.
C22_ModifiedNullTerminator ==
    [][\A i \in DOMAIN events :
           ( /\ GrubState(events).err = "nil"
             /\ IsGrubCommand(events[i])
             /\ NullTerminatorModified(i) )
           => GrubState(events').err # "nil" /\ GrubState(events').state = << >>]_vars

\* a GRUB extractor failed on events that hold a GRUB command whose null
\* terminator was changed: the digest is that of the suffix with a null byte
\* in the place of its last byte, or that of the suffix without its last byte
C22_Witness ==
    /\ GrubExtracted
    /\ extracted.err = "invalid GRUB event"
    /\ extracted.state = << >>
    /\ \E i \in DOMAIN events :
           /\ IsGrubCommand(events[i])
           /\ events[i].Data[Len(events[i].Data)] # 0
           /\ \/ events[i].Digest
                    = Sum(EventHash, [SuffixOf(events[i]) EXCEPT ![Len(SuffixOf(events[i]))] = 0])
              \/ events[i].Digest
                    = Sum(EventHash, SubSeq(SuffixOf(events[i]), 1, Len(SuffixOf(events[i])) - 1))
           /\ GrubState([events EXCEPT ![i].Data[Len(events[i].Data)] = 0]).err = "nil"

\* C23: an EV_IPL event on the register of the GRUB commands whose data do not
\* begin with one of the five prefixes makes GRUB extraction fail, with
\* GrubStateFromTPMLog on a TPM log and GrubStateFromRTMRLog on a CC log; the
\* event is never skipped.
C23_InvalidPrefixFails ==
    GrubExtracted =>
        ((\E i \in DOMAIN events : IsGrubIpl(events[i]) /\ ~HasValidPrefix(events[i]))
            => extracted.err # "nil" /\ extracted.state = << >>)

\* the registers the GRUB extractor of the register configuration reads
GrubRegisters == IF registerCfg.Name = "PCR" THEN {8, 9} ELSE {3}

\* the events give GRUB extraction no command and no file and no reason to
\* fail: each is on another register or an EV_EVENT_TAG event or, in a CC log,
\* an EV_IPL event without a prefix
NoGrubMeasurement ==
    \A i \in DOMAIN events :
        \/ events[i].Index \notin GrubRegisters
        \/ events[i].Type = EventTag
        \/ registerCfg.Name = "RTMR" /\ events[i].Type = Ipl /\ ~HasValidPrefix(events[i])

\* C24: when the events give GRUB extraction no command and no file, as when
\* there are no events or none on the GRUB registers, the GRUB extractor
\* returns "no GRUB measurements found" and no state, and FirmwareLogState with
\* GRUB as the loader returns an error that holds it; and a GRUB extractor
\* never returns a state without commands and files.
C24_NoGrubMeasurements ==
    /\ (FirmwareExtracted /\ extracted.opts.Loader = GRUB /\ NoGrubMeasurement)
           => /\ GrubState(events) = Failed("no GRUB measurements found")
              /\ extracted.err # "nil"
              /\ \E k \in DOMAIN extracted.joined :
                     extracted.joined[k] = "no GRUB measurements found"
              /\ extracted.state[1].Grub = << >>
    /\ (FirmwareExtracted /\ extracted.state[1].Grub # << >>)
           => Len(extracted.state[1].Grub[1].Commands) + Len(extracted.state[1].Grub[1].Files) > 0

\* FirmwareLogState with GRUB as the loader failed with "no GRUB measurements
\* found" and nothing else on events that are not on the GRUB registers
C24_Witness ==
    /\ FirmwareExtracted
    /\ extracted.opts.Loader = GRUB
    /\ events # << >>
    /\ NoGrubMeasurement
    /\ extracted.joined = <<"no GRUB measurements found">>

\* LinuxKernelStateFromGRUB was the last call, on the state of a GRUB extractor
KernelExtracted == extracted.op = "LinuxKernelStateFromGRUB"

\* command begins with a prefix of a kernel command line
IsKernelCmdline(command) ==
    HasPrefix(command, newGrubKernelCmdlinePrefix)
        \/ HasPrefix(command, oldGrubKernelCmdlinePrefix)

\* the places of the kernel command lines among the GRUB commands that
\* LinuxKernelStateFromGRUB was called on
KernelCmdlines ==
    {k \in DOMAIN GetCommands(extracted.grub) : IsKernelCmdline(GetCommands(extracted.grub)[k])}

\* command without the prefix of a kernel command line it begins with
WithoutKernelPrefix(command) ==
    IF HasPrefix(command, newGrubKernelCmdlinePrefix)
    THEN SubSeq(command, Len(newGrubKernelCmdlinePrefix) + 1, Len(command))
    ELSE SubSeq(command, Len(oldGrubKernelCmdlinePrefix) + 1, Len(command))

\* C25: LinuxKernelStateFromGRUB returns an error and no state when more than
\* one GRUB command begins with "kernel_cmdline: " or "grub_kernel_cmdline ",
\* and with exactly one such command it returns that command without the
\* prefix as the command line.
C25_OneKernelCmdline ==
    KernelExtracted =>
        /\ Cardinality(KernelCmdlines) > 1 => extracted.err # "nil" /\ extracted.state = << >>
        /\ \A k \in KernelCmdlines :
               KernelCmdlines = {k} =>
                   /\ extracted.err = "nil"
                   /\ extracted.state =
                          <<[CommandLine |->
                                 WithoutKernelPrefix(GetCommands(extracted.grub)[k])]>>

\* LinuxKernelStateFromGRUB failed on the commands of a GRUB state that hold a
\* kernel command line of each prefix
C25_Witness ==
    /\ KernelExtracted
    /\ extracted.err = "more than one kernel commandline in GRUB commands"
    /\ extracted.state = << >>
    /\ \E j, k \in KernelCmdlines :
           /\ HasPrefix(GetCommands(extracted.grub)[j], newGrubKernelCmdlinePrefix)
           /\ HasPrefix(GetCommands(extracted.grub)[k], oldGrubKernelCmdlinePrefix)


----------------------------------------------------------------------------
(* FakeROT.ExtendMR: claim C26. *)

\* the digest FakeROT.Digest reads from the register mr names in the banks f
RegisterOf(f, mr) == FakeROTDigest(f, mr).dgst

\* mr names a register of the root of trust and its digest has the bank's size
Extendable(mr) ==
    /\ mr.DigestAlg \in Range(measuredHashes)
    /\ mr.Index \in 0..(NumIdxs - 1)
    /\ Len(mr.Digest) = HashSize(mr.DigestAlg)

\* the register mr names was extended before the call
ExtendedBefore(f, mr) == mr.Index \in DOMAIN f[mr.DigestAlg]

\* C26: FakeROT.ExtendMR sets the register to H(old || delta), old being all
\* zeroes on the first extend of the register; when delta has the wrong
\* length, the bank is missing or the index is missing, it returns an error and
\* no register of any bank changes.
C26_ExtendMR ==
    call.op = "ExtendMR" =>
        IF Extendable(call.mr)
        THEN /\ call.err = "nil"
             /\ RegisterOf(fakeMRBanks, call.mr) =
                    Sum(call.mr.DigestAlg,
                        (IF ExtendedBefore(call.rot, call.mr)
                         THEN call.rot[call.mr.DigestAlg][call.mr.Index]
                         ELSE Zeroes(HashSize(call.mr.DigestAlg))) \o call.mr.Digest)
        ELSE /\ call.err # "nil"
             /\ fakeMRBanks = call.rot

\* a register is extended for the second time, after a call that failed
C26_Witness ==
    /\ call.op = "ExtendMR"
    /\ call.err = "nil"
    /\ ExtendedBefore(call.rot, call.mr)
    /\ hist.failed > 0

----------------------------------------------------------------------------
(* DecodeToCEL on records and bytes of any kind: claims C27 and C28. *)

\* the RecNums of recs are 0..N-1 in increasing order
RecNumsInOrder(recs) == \A i \in DOMAIN recs : recs[i].RecNum = i - 1

\* every digest of recs has the length of its hash algorithm
DigestsOfSize(recs) ==
    \A i \in DOMAIN recs : \A h \in DOMAIN recs[i].Digests :
        Len(recs[i].Digests[h]) = HashSize(h)

\* C27: every CEL returned without error by DecodeToCEL satisfies the record
\* invariants: its RecNums are exactly 0..N-1 in increasing order, and every
\* digest in every record has the length of its hash algorithm.
C27_DecodedInvariants ==
    decoded.err = "nil" => RecNumsInOrder(decoded.Recs) /\ DigestsOfSize(decoded.Recs)

\* C28: malformed input never causes a panic: TLV.UnmarshalBinary and
\* TLV.ParseToFakeTlv return an error value for every byte string, including
\* inputs (or Fake TLV values) shorter than the 5-byte TLV header, and
\* DecodeToCEL returns an error value for every truncated buffer.
C28_NoPanic ==
    /\ call.op \in {"UnmarshalBinary", "ParseToFakeTlv"} => call.err # "panic"
    /\ decoded.err # "panic"

\* DecodeToCEL alone returns for every buffer, cut short or not
DecodeToCELReturns == decoded.err # "panic"

\* a buffer that was cut short was decoded, with and without an error
DecodedTruncated == decoded.err \notin {"none", "panic"} /\ decoded.from = NoneWritten /\ Recs # <<>>

\* the panics are those of byte strings shorter than the header
PanicsOnShort ==
    call.op \in {"UnmarshalBinary", "ParseToFakeTlv"} =>
        (call.err = "panic" <=>
            /\ Len(call.data) < tlvTypeFieldLength + tlvLengthFieldLength
            /\ call.op = "ParseToFakeTlv" => IsFakeTLV(call.tlv))

----------------------------------------------------------------------------
(* The accumulators of Replay: claims C29 and C30. *)

\* the digests of the algorithm hash of the records of recs on register r, in
\* the order of the log
DigestsOn(recs, r, hash) ==
    LET on == SelectSeq(recs, LAMBDA record : record.Index = r)
    IN  [i \in DOMAIN on |-> on[i].Digests[hash]]

\* H(... H(H(acc || digests[1]) || digests[2]) ... || digests[n])
RECURSIVE Fold(_, _, _)
Fold(hash, acc, digests) ==
    IF digests = <<>> THEN acc
    ELSE Fold(hash, Sum(hash, acc \o Head(digests)), Tail(digests))

\* the digest the bank holds for register r: that of its last register r
BankDigest(r) ==
    LET last == CHOOSE i \in DOMAIN bank.FakeMRs :
                    /\ bank.FakeMRs[i].Index = r
                    /\ \A j \in DOMAIN bank.FakeMRs : bank.FakeMRs[j].Index = r => j <= i
    IN  bank.FakeMRs[last].Digest

\* the registers of the log whose replayed accumulator is not the bank's digest
Mismatching ==
    {r \in LogIndices :
        Fold(bank.Hash, Zeroes(HashSize(bank.Hash)), DigestsOn(Recs, r, bank.Hash))
            # BankDigest(r)}

\* C29: when Replay fails with a replay-mismatch error, the register list it
\* reports is exactly the set of indices referenced by the log whose replayed
\* accumulator differs from the bank's digest: no matching register is listed
\* and no mismatching register is omitted.
C29_MismatchList ==
    replayErr.err = "mismatch" => replayErr.regs = Mismatching

\* a mismatch that lists one register of the log and not the other, which
\* matches
C29_Witness ==
    /\ replayErr.err = "mismatch"
    /\ replayErr.regs # {}
    /\ LogIndices \ replayErr.regs # {}

\* a mismatch that lists two registers
TwoMismatching == replayErr.err = "mismatch" /\ Cardinality(replayErr.regs) = 2

\* the accumulators of the first loop of Replay over recs, begun with acc
Accumulators(recs, acc) == ReplayLoop(recs, 1, bank.Hash, acc).replayed

\* Replay was called and every record had a digest of the bank's algorithm
Replayed == replayErr.err \in {"nil", "mismatch", "missing"} /\ bank.Hash \in HashAlgos

\* C30: the accumulator Replay computes for each register is a left fold of
\* H(acc || digest) over that register's records in log order starting from
\* zeroes, so for any split of the record sequence into A followed by B,
\* folding A and then continuing with B from A's accumulators gives the same
\* per-register accumulators as folding the whole sequence.
C30_LeftFold ==
    Replayed =>
        /\ DOMAIN Accumulators(Recs, << >>) = LogIndices
        /\ \A r \in LogIndices :
              Accumulators(Recs, << >>)[r] =
                  Fold(bank.Hash, Zeroes(HashSize(bank.Hash)), DigestsOn(Recs, r, bank.Hash))
        /\ \A k \in 0..Len(Recs) :
              Accumulators(SubSeq(Recs, k + 1, Len(Recs)),
                           Accumulators(SubSeq(Recs, 1, k), << >>))
                  = Accumulators(Recs, << >>)

\* Replay ran over two records on one register, which split into A and B of
\* one record each
C30_Witness ==
    /\ Replayed
    /\ Len(Recs) = 2
    /\ Recs[1].Index = Recs[2].Index

----------------------------------------------------------------------------
(* The GRUB extractors, EfiState and digest verification: claims C31 to C33. *)

\* event e is on a register of GRUB and is not of the type given
OnGrubRegisterNot(e, types) == e.Index \in GrubRegisters /\ e.Type \notin types

\* the events without the EV_EVENT_TAG events of the registers of GRUB
WithoutEventTags ==
    SelectSeq(events, LAMBDA e : ~(e.Index \in GrubRegisters /\ e.Type = EventTag))

\* C31: on the GRUB registers (PCR 8 and 9 for TPM logs, the GRUB register for
\* CC logs) every event whose type is not EV_EVENT_TAG must be EV_IPL: a single
\* event of any other type makes GRUB extraction return an error and no state,
\* while EV_EVENT_TAG events are skipped without effect on the result.
C31_GrubEventTypes ==
    GrubExtracted =>
        /\ (\E i \in DOMAIN events : OnGrubRegisterNot(events[i], {EventTag, Ipl}))
              => extracted.err # "nil" /\ extracted.state = << >>
        /\ GrubState(WithoutEventTags).err = extracted.err
        /\ GrubState(WithoutEventTags).state = extracted.state

\* GRUB extraction failed on a command, an EV_EVENT_TAG event of a GRUB
\* register and then an event of another type on a GRUB register that is not
\* that of the commands when there are two
C31_Witness ==
    /\ GrubExtracted
    /\ extracted.err = "invalid event type, expected EV_IPL"
    /\ extracted.state = << >>
    /\ Len(events) = 3
    /\ IsGrubCommand(events[1])
    /\ events[2].Index \in GrubRegisters /\ events[2].Type = EventTag
    /\ OnGrubRegisterNot(events[3], {EventTag, Ipl})
    /\ registerCfg.Name = "PCR" => events[3].Index = 9

\* EV_EVENT_TAG events were skipped by an extraction that succeeded
TagsSkipped ==
    /\ GrubExtracted
    /\ extracted.err = "nil"
    /\ WithoutEventTags # events

\* event i is on the EFI app register or the ExitBootServices register
OnEfiRegisters(i) == On(i, registerCfg.EFIAppIdx) \/ On(i, registerCfg.ExitBootServicesIdx)

\* the events up to event k, and of those that follow it the ones that are on
\* neither of EfiState's two registers
WithoutEfiEventsAfter(k) ==
    SubSeq(events, 1, k)
        \o SelectSeq([i \in 1..(Len(events) - k) |-> [at |-> k + i, event |-> events[k + i]]],
                     LAMBDA e : ~OnEfiRegisters(e.at))

\* the events WithoutEfiEventsAfter(k) keeps, as the events themselves
KeptEvents(k) ==
    [i \in DOMAIN WithoutEfiEventsAfter(k) |->
        IF i <= k THEN WithoutEfiEventsAfter(k)[i] ELSE WithoutEfiEventsAfter(k)[i].event]

\* C32: EfiState stops at the first verified ExitBootServices action of the
\* ExitBootServices register: the Apps it returns hold the digests of
\* applications measured before that action only, and it returns, error and
\* state, what it returns for the events without the later events of the EFI
\* app register and the ExitBootServices register.
C32_StopsAtFirstExit ==
    EfiExtracted =>
        \A k \in DOMAIN events :
            IsFirstExitAction(k) =>
                /\ [err |-> extracted.err, state |-> extracted.state]
                       = EfiState(EventHash, KeptEvents(k), registerCfg)
                /\ EfiReturned => extracted.state[1].Apps = AppDigests(1, 1..k)

\* EfiState returned a state for events in which the first ExitBootServices
\* action is followed by an application and by an event EfiState rejects
\* when it reads it: an ExitBootServices digest that is not verified
C32_Witness ==
    /\ EfiReturned
    /\ \E k \in DOMAIN events :
           /\ IsFirstExitAction(k)
           /\ \E i \in (k + 1)..Len(events) : IsApp(i)
           /\ \E j \in (k + 1)..Len(events) :
                  /\ On(j, registerCfg.ExitBootServicesIdx)
                  /\ events[j].Digest = ExitDigest
                  /\ ~events[j].DigestVerified

\* the data end in a null byte
EndsInNull(data) == Len(data) > 0 /\ data[Len(data)] = 0

\* the digest of event e, a GRUB command, is the hash of its suffix, or, the
\* suffix ending in a null byte, the hash of the suffix without that byte
SuffixDigested(e) ==
    \/ e.Digest = Sum(EventHash, SuffixOf(e))
    \/ /\ EndsInNull(SuffixOf(e))
       /\ e.Digest = Sum(EventHash, SubSeq(SuffixOf(e), 1, Len(SuffixOf(e)) - 1))

\* C33: GRUB extraction accepts events that are all commands exactly when
\* each digest is the hash of the command's suffix or, for a suffix that ends
\* in 0x00, the hash of the suffix without its final 0x00, so a suffix that
\* does not end in 0x00 is accepted only with the hash of the suffix; and
\* verifyNullTerminatedDataDigest returns an error for empty data and for data
\* that do not end in 0x00.
C33_DigestVerification ==
    /\ GrubExtracted /\ events # <<>>
           /\ (\A i \in DOMAIN events : IsGrubIpl(events[i]) /\ HasValidPrefix(events[i]))
       => (extracted.err = "nil" <=> \A i \in DOMAIN events : SuffixDigested(events[i]))
    /\ call.op = "verifyNullTerminatedDataDigest" /\ ~EndsInNull(call.data)
       => call.err # "nil"

\* GRUB extraction accepted a command that ends in a null byte and was
\* measured without it, and verifyNullTerminatedDataDigest was called on
\* empty data with the hash of empty data
C33_Witness ==
    /\ GrubExtracted
    /\ extracted.err = "nil"
    /\ \E i \in DOMAIN events :
           /\ EndsInNull(SuffixOf(events[i]))
           /\ events[i].Digest # Sum(EventHash, SuffixOf(events[i]))
    /\ call.op = "verifyNullTerminatedDataDigest"
    /\ call.data = <<>>
    /\ call.digest = Sum(EventHash, <<>>)

----------------------------------------------------------------------------
(* Replay and AppendEvent on logs of several algorithms: claims C34 to C36. *)

\* the records that have no digest of the bank's algorithm
WithoutBankDigest == {i \in DOMAIN Recs : bank.Hash \notin DOMAIN Recs[i].Digests}

\* C34: Replay returns an error when a record has no digest of the bank's
\* algorithm, also when the register of the record is not in the bank and
\* when the record has digests of other algorithms; when every record has
\* one, what Replay returns is decided by the digests of that algorithm: the
\* missing-register error when the bank lacks a register of the log, else no
\* error exactly when the fold of these digests on every register of the log
\* is the bank's digest.
C34_BankAlgorithmOnly ==
    replayErr.err # "none" /\ bank.Hash \in HashAlgos =>
        IF WithoutBankDigest # {} THEN replayErr.err = "nodigest"
        ELSE IF ~(LogIndices \subseteq BankIndices) THEN replayErr.err = "missing"
        ELSE (replayErr.err = "nil" <=> Mismatching = {}) /\ replayErr.err \in {"nil", "mismatch"}

\* Replay returned the error for a log in which one record has a digest of
\* the bank's algorithm and another, on a register the bank lacks, has not
C34_Witness ==
    /\ replayErr.err = "nodigest"
    /\ \E i \in WithoutBankDigest : Recs[i].Index \notin BankIndices
    /\ \E j \in DOMAIN Recs : j \notin WithoutBankDigest /\ Recs[j].Index \in BankIndices

\* C35: an AppendEvent call that returns an error, the error of the extender
\* for one of several algorithms included, leaves every measurement register
\* and every record as they were.
C35_AllOrNothing ==
    [][call'.op = "AppendEvent" /\ call'.err # "nil"
           => fakeMRBanks' = fakeMRBanks /\ Recs' = Recs]_vars

\* C36: the record a successful AppendEvent call appends holds the mrIndex
\* the call was given, and gave the extender, as its Index, whatever the
\* mrIndex, those above 255 included.
C36_IndexStored ==
    [][\A event \in Events, bankAlgos \in AlgoLists, mrIndex \in MRIndices :
           AppendEvent(event, bankAlgos, mrIndex) /\ call'.err = "nil"
               => Recs'[Len(Recs')].Index = mrIndex]_vars

----------------------------------------------------------------------------
(* EfiState on the shared register of a CC log: claim C37. *)

\* the EFI app register is the ExitBootServices register
SharedEfiRegister == registerCfg.EFIAppIdx = registerCfg.ExitBootServicesIdx

\* the valid separators of the shared register
SharedSeparators ==
    {i \in DOMAIN events : On(i, registerCfg.EFIAppIdx) /\ IsValidSeparator(i)}

\* C37: when the EFI app register is the ExitBootServices register and the
\* events hold one valid separator on it, EfiState does not return the
\* duplicate-separator error, and when it returns no error for events with
\* an ExitBootServices action on the register it returns a state whose Apps
\* are the applications measured before the action.
C37_SharedRegisterSeparator ==
    EfiExtracted /\ SharedEfiRegister /\ Cardinality(SharedSeparators) = 1 =>
        /\ extracted.err # "duplicate Separator event"
        /\ \A k \in DOMAIN events :
               IsFirstExitAction(k) /\ extracted.err = "nil"
                   => EfiReturned /\ extracted.state[1].Apps = AppDigests(1, 1..k)

\* EfiState returned a state with an application for events of a CC log
\* with one separator on the shared register, before the ExitBootServices
\* action
C37_Witness ==
    /\ EfiReturned
    /\ SharedEfiRegister
    /\ Cardinality(SharedSeparators) = 1
    /\ extracted.state[1].Apps # <<>>
    /\ \E k \in DOMAIN events : IsFirstExitAction(k) /\ \A i \in SharedSeparators : i < k

----------------------------------------------------------------------------
(* The banks ReadMRs returns and the registers of the FakeROT: claims C38
   and C39. *)

\* the registers of the bank that the root of trust has extended since the
\* bank was read
ExtendedSinceRead ==
    {k \in DOMAIN bank.FakeMRs :
        bank.FakeMRs[k].Digest # SliceOf(fakeMRBanks, bank.Hash, bank.FakeMRs[k].Index)}

\* C38: no step that leaves the bank ReadMRs returned in the caller's hands,
\* an ExtendMR call on the FakeROT or an AppendEvent call with its extender,
\* changes the digests the bank holds, and what Replay returned against the
\* bank is what it returns for the same records after such steps.
C38_FrozenSnapshot ==
    [][/\ bank' = bank => BankValues(fakeMRBanks', bank) = BankValues(fakeMRBanks, bank)
       /\ replayErr'.err # "none"
              => replayErr' \in ReplayResults(Recs', BankValues(fakeMRBanks', bank'))]_vars

\* the log replayed against the bank without error, and ExtendMR then
\* extended a register of the bank on the root of trust
C38_Witness ==
    /\ replayErr.err = "nil"
    /\ Recs # <<>>
    /\ call.op = "ExtendMR"
    /\ call.err = "nil"
    /\ \E k \in ExtendedSinceRead : bank.FakeMRs[k].Index = call.mr.Index
    /\ \E k \in DOMAIN bank.FakeMRs : bank.FakeMRs[k].Index \in LogIndices

\* the registers of the banks f that were extended, by algorithm and index
ExtendedRegisters(f) == {<<h, idx>> \in (DOMAIN f) \X (0..NumIdxs) : idx \in DOMAIN f[h]}

\* the digest of the register r of the banks f
DigestOf(f, r) == RegisterOf(f, FakeMR(r[2], <<>>, r[1]))

\* C39: after CreateFakeRot and ExtendMR calls that succeeded or failed, the
\* banks are those of the algorithms CreateFakeRot was given and the registers
\* of each are 0..NumIdxs-1, every register holds a digest of the hash size
\* of its bank, and after a call that succeeded every register but the one
\* the call names holds what it held before the call.
C39_RegistersKept ==
    /\ DOMAIN fakeMRBanks = Range(measuredHashes)
    /\ \A h \in DOMAIN fakeMRBanks : DOMAIN fakeMRBanks[h] \subseteq 0..(NumIdxs - 1)
    /\ \A h \in HashAlgos, idx \in ExtendIndices :
           FakeROTDigest(fakeMRBanks, FakeMR(idx, <<>>, h)).err = "nil"
               <=> h \in Range(measuredHashes) /\ idx \in 0..(NumIdxs - 1)
    /\ \A h \in Range(measuredHashes), idx \in ExtendIndices \cap (0..(NumIdxs - 1)) :
           Len(DigestOf(fakeMRBanks, <<h, idx>>)) = HashSize(h)
    /\ call.op = "ExtendMR" /\ call.err = "nil" =>
           \A r \in ExtendedRegisters(fakeMRBanks) \cup ExtendedRegisters(call.rot) :
               r # <<call.mr.DigestAlg, call.mr.Index>> =>
                   DigestOf(fakeMRBanks, r) = DigestOf(call.rot, r)

\* a register was extended after a call that failed and after another
\* register was extended
C39_Witness ==
    /\ call.op = "ExtendMR"
    /\ call.err = "nil"
    /\ hist.failed > 0
    /\ \E r \in ExtendedRegisters(fakeMRBanks) : r # <<call.mr.DigestAlg, call.mr.Index>>

----------------------------------------------------------------------------
(* The kernel state of FirmwareLogState: claim C40. *)

\* C40: the state FirmwareLogState returns with GRUB as the loader has a
\* LinuxKernel field only when the GRUB extractor did not fail: when it failed
\* the Grub field and the LinuxKernel field are both nil.
C40_KernelOnlyWithGrub ==
    FirmwareExtracted /\ extracted.opts.Loader = GRUB /\ GrubAlone.err # "nil" =>
        /\ FieldOf("Grub") = << >>
        /\ FieldOf("LinuxKernel") = << >>
====
